---- MODULE Spec2Model ----
(***************************************************************************)
(* A model of esperanto 0.6.18 (dist/esperanto.js): the bundle loader,     *)
(* the module sorter, the name allocator, the export planner, the body     *)
(* rewriter and the wrapper emitters.                                      *)
(*                                                                         *)
(* JavaScript strings are modelled as sequences of one-character strings,  *)
(* so that concatenation, splitting and sanitising are computed and not    *)
(* assumed: the identifier a__b is <<"a","_","_","b">>.                    *)
(***************************************************************************)
EXTENDS Integers, Sequences, FiniteSets, TLC

(***************************************************************************)
(* Strings                                                                 *)
(***************************************************************************)
LowerCase ==
  {"a","b","c","d","e","f","g","h","i","j","k","l","m","n","o","p","q","r","s","t","u","v","w","x","y","z"}

UpperCase ==
  {"A","B","C","D","E","F","G","H","I","J","K","L","M","N","O","P","Q","R","S","T","U","V","W","X","Y","Z"}

Digits ==
  {"0","1","2","3","4","5","6","7","8","9"}

\* var reserved = 'break case class ...'.split( ' ' )
reserved ==
  << <<"b","r","e","a","k">>,
     <<"c","a","s","e">>,
     <<"c","l","a","s","s">>,
     <<"c","a","t","c","h">>,
     <<"c","o","n","s","t">>,
     <<"c","o","n","t","i","n","u","e">>,
     <<"d","e","b","u","g","g","e","r">>,
     <<"d","e","f","a","u","l","t">>,
     <<"d","e","l","e","t","e">>,
     <<"d","o">>,
     <<"e","l","s","e">>,
     <<"e","x","p","o","r","t">>,
     <<"e","x","t","e","n","d","s">>,
     <<"f","i","n","a","l","l","y">>,
     <<"f","o","r">>,
     <<"f","u","n","c","t","i","o","n">>,
     <<"i","f">>,
     <<"i","m","p","o","r","t">>,
     <<"i","n">>,
     <<"i","n","s","t","a","n","c","e","o","f">>,
     <<"l","e","t">>,
     <<"n","e","w">>,
     <<"r","e","t","u","r","n">>,
     <<"s","u","p","e","r">>,
     <<"s","w","i","t","c","h">>,
     <<"t","h","i","s">>,
     <<"t","h","r","o","w">>,
     <<"t","r","y">>,
     <<"t","y","p","e","o","f">>,
     <<"v","a","r">>,
     <<"v","o","i","d">>,
     <<"w","h","i","l","e">>,
     <<"w","i","t","h">>,
     <<"y","i","e","l","d">> >>

\* var builtins = 'Array ArrayBuffer ... exports ...'.split( ' ' )
builtins ==
  << <<"A","r","r","a","y">>,
     <<"A","r","r","a","y","B","u","f","f","e","r">>,
     <<"D","a","t","a","V","i","e","w">>,
     <<"D","a","t","e">>,
     <<"E","r","r","o","r">>,
     <<"E","v","a","l","E","r","r","o","r">>,
     <<"F","l","o","a","t","3","2","A","r","r","a","y">>,
     <<"F","l","o","a","t","6","4","A","r","r","a","y">>,
     <<"F","u","n","c","t","i","o","n">>,
     <<"G","e","n","e","r","a","t","o","r">>,
     <<"G","e","n","e","r","a","t","o","r","F","u","n","c","t","i","o","n">>,
     <<"I","n","f","i","n","i","t","y">>,
     <<"I","n","t","1","6","A","r","r","a","y">>,
     <<"I","n","t","3","2","A","r","r","a","y">>,
     <<"I","n","t","8","A","r","r","a","y">>,
     <<"I","n","t","e","r","n","a","l","E","r","r","o","r">>,
     <<"I","n","t","l">>,
     <<"I","t","e","r","a","t","o","r">>,
     <<"J","S","O","N">>,
     <<"M","a","p">>,
     <<"M","a","t","h">>,
     <<"N","a","N">>,
     <<"N","u","m","b","e","r">>,
     <<"O","b","j","e","c","t">>,
     <<"P","a","r","a","l","l","e","l","A","r","r","a","y">>,
     <<"P","r","o","m","i","s","e">>,
     <<"P","r","o","x","y">>,
     <<"R","a","n","g","e","E","r","r","o","r">>,
     <<"R","e","f","e","r","e","n","c","e","E","r","r","o","r">>,
     <<"R","e","f","l","e","c","t">>,
     <<"R","e","g","E","x","p">>,
     <<"S","e","t">>,
     <<"S","t","o","p","I","t","e","r","a","t","i","o","n">>,
     <<"S","t","r","i","n","g">>,
     <<"S","y","m","b","o","l">>,
     <<"S","y","n","t","a","x","E","r","r","o","r">>,
     <<"T","y","p","e","E","r","r","o","r">>,
     <<"T","y","p","e","d","A","r","r","a","y">>,
     <<"U","R","I","E","r","r","o","r">>,
     <<"U","i","n","t","1","6","A","r","r","a","y">>,
     <<"U","i","n","t","3","2","A","r","r","a","y">>,
     <<"U","i","n","t","8","A","r","r","a","y">>,
     <<"U","i","n","t","8","C","l","a","m","p","e","d","A","r","r","a","y">>,
     <<"W","e","a","k","M","a","p">>,
     <<"W","e","a","k","S","e","t">>,
     <<"d","e","c","o","d","e","U","R","I">>,
     <<"d","e","c","o","d","e","U","R","I","C","o","m","p","o","n","e","n","t">>,
     <<"e","n","c","o","d","e","U","R","I">>,
     <<"e","n","c","o","d","e","U","R","I","C","o","m","p","o","n","e","n","t">>,
     <<"e","s","c","a","p","e">>,
     <<"e","v","a","l">>,
     <<"e","x","p","o","r","t","s">>,
     <<"i","s","F","i","n","i","t","e">>,
     <<"i","s","N","a","N">>,
     <<"n","u","l","l">>,
     <<"p","a","r","s","e","F","l","o","a","t">>,
     <<"p","a","r","s","e","I","n","t">>,
     <<"u","n","d","e","f","i","n","e","d">>,
     <<"u","n","e","s","c","a","p","e">>,
     <<"u","n","e","v","a","l">> >>

reservedSet ==
  {reserved[i] : i \in 1..Len(reserved)}

builtinSet ==
  {builtins[i] : i \in 1..Len(builtins)}

\* The value of a property that was never set, and of a missing argument.
undefined ==
  << "<undefined>" >>

\* null, where the number of an array is expected
null ==
  0

\* A null child of a syntax node.
Null ==
  [type |-> "Null"]

concat(a, b) ==
  a \o b

\* Array.prototype.pop: the array without its last element (none when empty).
pop(arr) ==
  IF arr = <<>> THEN <<>> ELSE SubSeq(arr, 1, Len(arr) - 1)

\* Array.prototype.indexOf(x) >= 0, the idiom ~arr.indexOf( x ).
includes(arr, x) ==
  \E i \in 1..Len(arr) : arr[i] = x

RECURSIVE splitFrom(_, _, _, _)
splitFrom(s, i, cur, seps) ==
  IF i > Len(s) THEN << cur >>
  ELSE IF s[i] \in seps THEN << cur >> \o splitFrom(s, i + 1, <<>>, seps)
  ELSE splitFrom(s, i + 1, Append(cur, s[i]), seps)

\* path.split( /\/|\\/ )
splitPath(path) ==
  splitFrom(path, 1, <<>>, {"/", "\\"})

RECURSIVE join(_, _)
join(parts, sep) ==
  IF parts = <<>> THEN <<>>
  ELSE IF Len(parts) = 1 THEN parts[1]
  ELSE parts[1] \o sep \o join(Tail(parts), sep)

\* str.replace( /\.js$/, '' )
stripJs(str) ==
  IF Len(str) >= 3 /\ SubSeq(str, Len(str) - 2, Len(str)) = <<".", "j", "s">>
  THEN SubSeq(str, 1, Len(str) - 3)
  ELSE str

identifierChar(c) ==
  c \in LowerCase \cup UpperCase \cup Digits \cup {"_", "$"}

sanitize(name) ==
  LET replaced == [i \in 1..Len(name) |->
                     IF identifierChar(name[i]) THEN name[i] ELSE "_"]
      started == IF replaced # <<>>
                    /\ replaced[1] \notin LowerCase \cup UpperCase \cup {"_", "$"}
                 THEN <<"_">> \o replaced
                 ELSE replaced
  IN IF started \in reservedSet THEN <<"_">> \o started ELSE started

RECURSIVE shiftDotDot(_, _)
shiftDotDot(importParts, importerParts) ==
  IF importParts # <<>> /\ importParts[1] = <<".", ".">>
  THEN shiftDotDot(Tail(importParts), pop(importerParts))
  ELSE [importParts |-> importParts, importerParts |-> importerParts]

RECURSIVE shiftDot(_)
shiftDot(importParts) ==
  IF importParts # <<>> /\ importParts[1] = <<".">>
  THEN shiftDot(Tail(importParts))
  ELSE importParts

resolveId(importPath, importerPath) ==
  LET resolved ==
        IF importPath = <<>> \/ importPath[1] # "."
        THEN importPath
        ELSE LET split == splitPath(importPath)
                 first == IF split[1] = <<".">> THEN Tail(split) ELSE split
                 up == shiftDotDot(first, pop(splitPath(importerPath)))
             IN join(up.importerParts \o shiftDot(up.importParts), <<"/">>)
  IN stripJs(resolved)

\* utils/resolve.js: the paths are split at '/' only, and a leading '.' is
\* dropped after the leading '..' segments
resolve(importPath, importerPath) ==
  LET resolved ==
        IF importPath = <<>> \/ importPath[1] # "."
        THEN importPath
        ELSE LET up == shiftDotDot(splitFrom(importPath, 1, <<>>, {"/"}),
                                   pop(splitFrom(importerPath, 1, <<>>, {"/"})))
             IN join(up.importerParts \o shiftDot(up.importParts), <<"/">>)
  IN stripJs(resolved)

(***************************************************************************)
(* Syntax trees, as acorn.parse returns them (ESTree).  A node is a record *)
(* with a type; a statement of a Program is named by its index in body,    *)
(* which stands for its source offsets.                                    *)
(***************************************************************************)
Identifier(name) ==
  [type |-> "Identifier", name |-> name]

Literal(value) ==
  [type |-> "Literal", value |-> value]

ImportSpecifier(imported, local) ==
  [type |-> "ImportSpecifier", imported |-> Identifier(imported),
   local |-> Identifier(local)]

ImportDefaultSpecifier(local) ==
  [type |-> "ImportDefaultSpecifier", local |-> Identifier(local)]

ImportNamespaceSpecifier(local) ==
  [type |-> "ImportNamespaceSpecifier", local |-> Identifier(local)]

ImportDeclaration(specifiers, source) ==
  [type |-> "ImportDeclaration", specifiers |-> specifiers,
   source |-> Literal(source)]

ExportSpecifier(local, exported) ==
  [type |-> "ExportSpecifier", local |-> Identifier(local),
   exported |-> Identifier(exported)]

\* export var x = ...;  export function f () {}  (a declaration, no source)
ExportDeclaration(declaration) ==
  [type |-> "ExportNamedDeclaration", declaration |-> declaration,
   specifiers |-> <<>>, source |-> Null]

\* export { x, y };
ExportSpecifiers(specifiers) ==
  [type |-> "ExportNamedDeclaration", declaration |-> Null,
   specifiers |-> specifiers, source |-> Null]

\* export { x, y } from 'source';
ExportFrom(specifiers, source) ==
  [type |-> "ExportNamedDeclaration", declaration |-> Null,
   specifiers |-> specifiers, source |-> Literal(source)]

ExportDefaultDeclaration(declaration) ==
  [type |-> "ExportDefaultDeclaration", declaration |-> declaration]

Program(body) ==
  [type |-> "Program", body |-> body]

default ==
  <<"d", "e", "f", "a", "u", "l", "t">>

\* source.slice( d.start, d.end ): the text of a declaration.  An identifier
\* or a literal is its own text; every other node's text holds characters
\* that no identifier has.
sourceText(d) ==
  IF d.type = "Identifier" THEN d.name
  ELSE IF d.type = "Literal" THEN d.value
  ELSE <<"(", ")", " ", "{", "}">>

(***************************************************************************)
(* findImportsAndExports and its helpers                                   *)
(***************************************************************************)
processSpecifier(s, passthrough) ==
  IF s.type = "ImportNamespaceSpecifier"
  THEN [isBatch |-> TRUE, isDefault |-> FALSE,
        name |-> s.local.name, as |-> s.local.name]
  ELSE IF s.type = "ImportDefaultSpecifier"
  THEN [isBatch |-> FALSE, isDefault |-> TRUE,
        name |-> default, as |-> s.local.name]
  ELSE [isBatch |-> FALSE, isDefault |-> FALSE,
        name |-> (IF passthrough THEN s.exported ELSE s.imported).name,
        as |-> s.local.name]

processImport(node, at, passthrough) ==
  LET specifiers == [i \in 1..Len(node.specifiers) |->
                       processSpecifier(node.specifiers[i], passthrough)]
      isEmpty == Len(specifiers) = 0
      isDefault == Len(specifiers) = 1 /\ specifiers[1].isDefault
      isBatch == ~isDefault /\ Len(specifiers) = 1 /\ specifiers[1].isBatch
  IN [id |-> undefined,
      name |-> undefined,
      at |-> at,
      passthrough |-> passthrough,
      path |-> node.source.value,
      specifiers |-> specifiers,
      isEmpty |-> isEmpty,
      isDefault |-> isDefault,
      isBatch |-> isBatch,
      isNamed |-> ~isEmpty /\ ~isDefault /\ ~isBatch,
      as |-> IF isDefault THEN specifiers[1].as
             ELSE IF isBatch THEN specifiers[1].name
             ELSE undefined]

processDefaultExport(node, at) ==
  LET d == node.declaration
      base == [isDefault |-> TRUE, at |-> at, node |-> node,
               value |-> sourceText(d), hasSpecifiers |-> FALSE,
               specifiers |-> <<>>, passthrough |-> FALSE, isFinal |-> FALSE]
  IN IF d.type = "FunctionExpression"
     THEN base @@ [hasDeclaration |-> TRUE, type |-> "anonFunction",
                   name |-> undefined]
     ELSE IF d.type = "FunctionDeclaration"
     THEN base @@ [hasDeclaration |-> TRUE, type |-> "namedFunction",
                   name |-> d.id.name]
     ELSE IF d.type = "ClassExpression"
     THEN base @@ [hasDeclaration |-> TRUE, type |-> "anonClass",
                   name |-> undefined]
     ELSE IF d.type = "ClassDeclaration"
     THEN base @@ [hasDeclaration |-> TRUE, type |-> "namedClass",
                   name |-> d.id.name]
     ELSE base @@ [hasDeclaration |-> FALSE, type |-> "expression",
                   name |-> default]

processExport(node, at) ==
  LET d == node.declaration
      base == [isDefault |-> FALSE, at |-> at, node |-> node,
               passthrough |-> FALSE, isFinal |-> FALSE]
  IN IF d.type # "Null"
     THEN LET withValue == base @@ [value |-> sourceText(d),
                                    hasSpecifiers |-> FALSE,
                                    specifiers |-> <<>>]
          IN IF d.type = "VariableDeclaration"
             THEN withValue @@ [hasDeclaration |-> TRUE,
                                type |-> "varDeclaration",
                                name |-> d.declarations[1].id.name]
             ELSE IF d.type = "FunctionDeclaration"
             THEN withValue @@ [hasDeclaration |-> TRUE,
                                type |-> "namedFunction",
                                name |-> d.id.name]
             ELSE IF d.type = "ClassDeclaration"
             THEN withValue @@ [hasDeclaration |-> TRUE,
                                type |-> "namedClass",
                                name |-> d.id.name]
             ELSE withValue @@ [hasDeclaration |-> FALSE,
                                type |-> "none",
                                name |-> undefined]
     ELSE base @@ [value |-> undefined, hasDeclaration |-> FALSE,
                   type |-> "named", name |-> undefined,
                   hasSpecifiers |-> TRUE,
                   specifiers |-> [i \in 1..Len(node.specifiers) |->
                                     [name |-> node.specifiers[i].local.name]]]

\* previousDeclaration.isFinal: no statement other than empty ones follows.
isFinalStatement(body, at) ==
  \A j \in (at + 1)..Len(body) : body[j].type = "EmptyStatement"

RECURSIVE findFrom(_, _, _)
findFrom(body, i, acc) ==
  IF i > Len(body) \/ acc.error # "none" THEN acc
  ELSE LET node == body[i] IN
    IF node.type = "ImportDeclaration"
    THEN findFrom(body, i + 1,
           [acc EXCEPT !.imports = Append(@, processImport(node, i, FALSE))])
    ELSE IF node.type = "ExportDefaultDeclaration"
    THEN LET declaration == [processDefaultExport(node, i) EXCEPT
                               !.isFinal = isFinalStatement(body, i)]
         IN findFrom(body, i + 1,
              [acc EXCEPT !.exports = Append(@, declaration),
                          !.hasDefaultExport = TRUE,
                          !.defaultExport = declaration,
                          !.error = IF acc.hasDefaultExport
                                    THEN "Duplicate default exports"
                                    ELSE "none"])
    ELSE IF node.type = "ExportNamedDeclaration"
    THEN LET hasSource == node.source.type # "Null"
             declaration == [processExport(node, i) EXCEPT
                               !.passthrough = hasSource,
                               !.isFinal = isFinalStatement(body, i)]
         IN findFrom(body, i + 1,
              [acc EXCEPT !.exports = Append(@, declaration),
                          !.imports = IF hasSource
                                      THEN Append(@, processImport(node, i, TRUE))
                                      ELSE @])
    ELSE findFrom(body, i + 1, acc)

findImportsAndExports(ast) ==
  findFrom(ast.body, 1,
           [imports |-> <<>>, exports |-> <<>>, hasDefaultExport |-> FALSE,
            defaultExport |-> Null, error |-> "none"])

\* The names disallowConflictingImports checks, in its order: x.as when the
\* declaration has one, else the alias of every specifier.
RECURSIVE importAliases(_)
importAliases(imports) ==
  IF imports = <<>> THEN <<>>
  ELSE LET x == imports[1]
       IN (IF x.as # undefined THEN << x.as >>
           ELSE [i \in 1..Len(x.specifiers) |-> x.specifiers[i].as])
          \o importAliases(Tail(imports))

disallowConflictingImports(imports) ==
  LET checked == importAliases(imports)
  IN IF \E i, j \in 1..Len(checked) : i < j /\ checked[i] = checked[j]
     THEN "Duplicated import"
     ELSE "none"

(***************************************************************************)
(* Statements and expressions                                              *)
(***************************************************************************)
ThisExpression ==
  [type |-> "ThisExpression"]

EmptyStatement ==
  [type |-> "EmptyStatement"]

ExpressionStatement(expression) ==
  [type |-> "ExpressionStatement", expression |-> expression]

AssignmentExpression(left, right) ==
  [type |-> "AssignmentExpression", operator |-> "=", left |-> left,
   right |-> right]

UpdateExpression(operator, argument) ==
  [type |-> "UpdateExpression", operator |-> operator,
   argument |-> argument]

MemberExpression(object, property, computed) ==
  [type |-> "MemberExpression", object |-> object, property |-> property,
   computed |-> computed]

CallExpression(callee, arguments) ==
  [type |-> "CallExpression", callee |-> callee, arguments |-> arguments]

VariableDeclarator(id, init) ==
  [type |-> "VariableDeclarator", id |-> Identifier(id), init |-> init]

VariableDeclaration(kind, declarations) ==
  [type |-> "VariableDeclaration", kind |-> kind,
   declarations |-> declarations]

BlockStatement(body) ==
  [type |-> "BlockStatement", body |-> body]

ReturnStatement(argument) ==
  [type |-> "ReturnStatement", argument |-> argument]

FunctionDeclaration(id, params, body) ==
  [type |-> "FunctionDeclaration", id |-> Identifier(id),
   params |-> [i \in 1..Len(params) |-> Identifier(params[i])],
   body |-> BlockStatement(body)]

\* function id ( params ) { body }, as an expression; id may be Null
FunctionExpression(id, params, body) ==
  [type |-> "FunctionExpression", id |-> id,
   params |-> [i \in 1..Len(params) |-> Identifier(params[i])],
   body |-> BlockStatement(body)]

ArrowFunctionExpression(params, body) ==
  [type |-> "ArrowFunctionExpression", id |-> Null,
   params |-> [i \in 1..Len(params) |-> Identifier(params[i])],
   body |-> BlockStatement(body)]

ClassDeclaration(id) ==
  [type |-> "ClassDeclaration", id |-> Identifier(id)]

optional(node) ==
  IF node.type = "Null" THEN <<>> ELSE << node >>

\* The children estraverse visits, in its order (VisitorKeys); a null child
\* is not visited.
children(node) ==
  CASE node.type = "Program" -> node.body
    [] node.type = "BlockStatement" -> node.body
    [] node.type = "ExpressionStatement" -> << node.expression >>
    [] node.type = "VariableDeclaration" -> node.declarations
    [] node.type = "VariableDeclarator" -> << node.id >> \o optional(node.init)
    [] node.type \in {"FunctionDeclaration", "FunctionExpression",
                      "ArrowFunctionExpression"} ->
         optional(node.id) \o node.params \o << node.body >>
    [] node.type = "ClassDeclaration" -> << node.id >>
    [] node.type = "ReturnStatement" -> optional(node.argument)
    [] node.type = "AssignmentExpression" -> << node.left, node.right >>
    [] node.type = "UpdateExpression" -> << node.argument >>
    [] node.type = "MemberExpression" -> << node.object, node.property >>
    [] node.type = "CallExpression" -> << node.callee >> \o node.arguments
    [] node.type = "ImportDeclaration" -> node.specifiers \o << node.source >>
    [] node.type = "ExportNamedDeclaration" ->
         optional(node.declaration) \o node.specifiers \o optional(node.source)
    [] node.type = "ExportDefaultDeclaration" -> << node.declaration >>
    [] OTHER -> <<>>

(***************************************************************************)
(* Scope.  A scope is named by the path (child indices from the Program)   *)
(* of the node that owns it; the Program's scope is the empty path and has *)
(* no parent.                                                              *)
(***************************************************************************)
root ==
  <<>>

noParent ==
  << 0 >>

newScope(parent, params) ==
  [parent |-> parent, names |-> params]

\* Scope.prototype.contains, over the table of scopes
RECURSIVE contains(_, _, _, _)
contains(scopes, scope, name, ignoreTopLevel) ==
  IF ignoreTopLevel /\ scopes[scope].parent = noParent THEN FALSE
  ELSE IF includes(scopes[scope].names, name) THEN TRUE
  ELSE IF scopes[scope].parent # noParent
  THEN contains(scopes, scopes[scope].parent, name, ignoreTopLevel)
  ELSE FALSE

(***************************************************************************)
(* annotateAst                                                             *)
(***************************************************************************)
addToScope(st, name) ==
  [st EXCEPT !.scopes[st.scope].names = Append(@, name),
             !.declared = @ \cup {name}]

addToBlockScope(st, name) ==
  [st EXCEPT !.blockScopes[st.blockScope].names = Append(@, name),
             !.declared = @ \cup {name}]

RECURSIVE addDeclarators(_, _, _, _)
addDeclarators(st, kind, declarations, i) ==
  IF i > Len(declarations) THEN st
  ELSE addDeclarators(
         IF kind = "let" THEN addToBlockScope(st, declarations[i].id.name)
         ELSE addToScope(st, declarations[i].id.name),
         kind, declarations, i + 1)

\* The index, among children(node), of node.property of a member expression
\* and of node.key of a property.
propertyIndex ==
  2

annotateEnter(node, path, st0) ==
  LET st == IF node.type \in {"ImportDeclaration", "ExportSpecifier"}
            THEN [st0 EXCEPT !.skip = @ \cup {path}]
            ELSE st0
  IN IF path \in st.skip THEN st
     ELSE IF node.type \in {"FunctionExpression", "FunctionDeclaration",
                            "ArrowFunctionExpression"}
     THEN LET counted == IF node.type = "ArrowFunctionExpression" THEN st
                         ELSE [st EXCEPT !.envDepth = @ + 1]
              named == IF node.id.type = "Null" THEN counted
                       ELSE LET added == addToScope(counted, node.id.name)
                            IN IF counted.scopes[counted.scope].parent = noParent
                                  /\ node.type = "FunctionDeclaration"
                               THEN [added EXCEPT !.topLevelFunctionNames =
                                                    Append(@, node.id.name)]
                               ELSE added
          IN [named EXCEPT
                !.scopes = (path :> newScope(named.scope,
                              [i \in 1..Len(node.params) |-> node.params[i].name]))
                           @@ @,
                !.scope = path]
     ELSE IF node.type = "BlockStatement"
     THEN [st EXCEPT !.blockScopes = (path :> newScope(st.blockScope, <<>>)) @@ @,
                     !.blockScope = path]
     ELSE IF node.type = "VariableDeclaration"
     THEN addDeclarators(st, node.kind, node.declarations, 1)
     ELSE IF node.type \in {"ClassExpression", "ClassDeclaration"}
     THEN addToScope(st, node.id.name)
     ELSE IF node.type = "MemberExpression"
     THEN IF st.envDepth = 0 /\ node.object.type = "ThisExpression"
          THEN [st EXCEPT !.error = "this at the top level is undefined"]
          ELSE IF ~node.computed
          THEN [st EXCEPT !.skip = @ \cup {Append(path, propertyIndex)}]
          ELSE st
     ELSE IF node.type = "ThisExpression" /\ st.envDepth = 0
     THEN [st EXCEPT !.topLevel = @ \cup {path}]
     ELSE st

annotateLeave(node, st) ==
  IF node.type \in {"FunctionExpression", "FunctionDeclaration",
                    "ArrowFunctionExpression"}
  THEN [st EXCEPT !.envDepth = IF node.type = "ArrowFunctionExpression"
                               THEN @ ELSE @ - 1,
                  !.scope = st.scopes[st.scope].parent]
  ELSE IF node.type = "BlockStatement"
  THEN [st EXCEPT !.blockScope = st.blockScopes[st.blockScope].parent]
  ELSE st

RECURSIVE annotateNode(_, _, _)
RECURSIVE annotateChildren(_, _, _, _)
annotateNode(node, path, st0) ==
  IF st0.error # "none" THEN st0
  ELSE LET st == annotateEnter(node, path, st0)
       IN IF st.error # "none" THEN st
          ELSE IF path \in st.skip THEN annotateLeave(node, st)
          ELSE LET after == annotateChildren(children(node), path, 1, st)
               IN IF after.error # "none" THEN after
                  ELSE annotateLeave(node, after)

annotateChildren(nodes, path, i, st) ==
  IF i > Len(nodes) \/ st.error # "none" THEN st
  ELSE annotateChildren(nodes, path, i + 1,
                        annotateNode(nodes[i], Append(path, i), st))

\* The annotations of a syntax tree: what annotateAst attaches to its nodes
\* (_scope, _blockScope, _skip, _topLevel) and to the Program.
annotateAst(ast) ==
  LET st == annotateNode(ast, root,
              [scope |-> root, blockScope |-> root,
               scopes |-> (root :> newScope(noParent, <<>>)),
               blockScopes |-> (root :> newScope(noParent, <<>>)),
               skip |-> {}, topLevel |-> {}, declared |-> {},
               topLevelFunctionNames |-> <<>>, envDepth |-> 0,
               error |-> "none"])
  IN [error |-> st.error,
      scopes |-> st.scopes,
      blockScopes |-> st.blockScopes,
      skip |-> st.skip,
      topLevel |-> st.topLevel,
      _topLevelNames |-> st.scopes[root].names \o st.blockScopes[root].names,
      _topLevelFunctionNames |-> st.topLevelFunctionNames,
      _declared |-> st.declared]

(***************************************************************************)
(* Objects used as maps: a function from the keys that were set.           *)
(***************************************************************************)
emptyObject ==
  [k \in {} |-> undefined]

\* hasOwnProp.call( object, key )
hasOwnProp(object, key) ==
  key \in DOMAIN object

\* object[ key ] = value
set(object, key, value) ==
  [k \in DOMAIN object \cup {key} |-> IF k = key THEN value ELSE object[k]]

\* object[ key ], undefined when the key was never set
get(object, key) ==
  IF key \in DOMAIN object THEN object[key] ELSE undefined

(***************************************************************************)
(* getUnscopedNames                                                        *)
(***************************************************************************)
\* imported( name ): an alias of a specifier of an import that is not a
\* passthrough
imported(imports, name) ==
  \E i \in 1..Len(imports) :
    /\ ~imports[i].passthrough
    /\ \E j \in 1..Len(imports[i].specifiers) :
         imports[i].specifiers[j].as = name

\* The identifiers met below a node, in the order estraverse enters them, that
\* neither the scope in force nor an import declares.  scope is the scope in
\* force on entering the node: enter sets it to node._scope, leave restores
\* the parent, so it is the scope of the innermost enclosing owner.
RECURSIVE unscopedNode(_, _, _, _)
RECURSIVE unscopedChildren(_, _, _, _, _)
unscopedNode(mod, node, path, scope0) ==
  IF path \in mod.ast_.skip THEN <<>>
  ELSE LET scope == IF path \in DOMAIN mod.ast_.scopes THEN path ELSE scope0
           found == IF /\ node.type = "Identifier"
                       /\ ~contains(mod.ast_.scopes, scope, node.name, FALSE)
                       /\ ~imported(mod.imports, node.name)
                    THEN << node.name >>
                    ELSE <<>>
       IN found \o unscopedChildren(mod, children(node), path, 1, scope)

unscopedChildren(mod, nodes, path, i, scope) ==
  IF i > Len(nodes) THEN <<>>
  ELSE unscopedNode(mod, nodes[i], Append(path, i), scope)
       \o unscopedChildren(mod, nodes, path, i + 1, scope)

\* if ( !~unscoped.indexOf( node.name ) ) unscoped.push( node.name )
RECURSIVE pushNew(_, _)
pushNew(unscoped, names) ==
  IF names = <<>> THEN unscoped
  ELSE pushNew(IF includes(unscoped, names[1]) THEN unscoped
               ELSE Append(unscoped, names[1]),
               Tail(names))

getUnscopedNames(mod) ==
  pushNew(<<>>, unscopedNode(mod, mod.ast, root, root))

(***************************************************************************)
(* getModule                                                               *)
(***************************************************************************)
RECURSIVE exportedNames(_)
exportedNames(exports) ==
  IF exports = <<>> THEN {}
  ELSE LET x == exports[1]
       IN (IF x.isDefault THEN {default}
           ELSE IF x.name # undefined /\ x.name # <<>> THEN {x.name}
           ELSE {x.specifiers[i].name : i \in 1..Len(x.specifiers)})
          \cup exportedNames(Tail(exports))

\* An export that is neither a default, nor named, nor a list of specifiers.
unexpectedExport(x) ==
  /\ ~x.isDefault
  /\ (x.name = undefined \/ x.name = <<>>)
  /\ ~x.hasSpecifiers

\* What getModule throws, or "none"
thrown(annotations, found) ==
  IF annotations.error # "none" THEN annotations.error
  ELSE IF found.error # "none" THEN found.error
  ELSE IF disallowConflictingImports(found.imports) # "none"
  THEN disallowConflictingImports(found.imports)
  ELSE IF \E i \in 1..Len(found.exports) : unexpectedExport(found.exports[i])
  THEN "Unexpected export type"
  ELSE "none"

\* The module getModule returns, given the annotations of the tree, the
\* imports and exports found, and what was thrown.  mod.ast_ holds the
\* annotations of mod.ast.
populated(mod, annotations, found, error) ==
  [error |-> error,
   mod |-> [id |-> mod.id,
            relativePath |-> mod.relativePath,
            path |-> mod.path,
            ast |-> mod.source,
            ast_ |-> annotations,
            imports |-> found.imports,
            exports |-> found.exports,
            hasDefaultExport |-> found.hasDefaultExport,
            defaultExport |-> found.defaultExport,
            identifierReplacements |-> emptyObject,
            doesExport |-> IF error = "none"
                           THEN exportedNames(found.exports) ELSE {},
            name |-> undefined,
            _exportsNamespace |-> FALSE]]

parsed(mod, annotations, found) ==
  populated(mod, annotations, found, thrown(annotations, found))

\* getModule: [error, mod]
getModule(mod) ==
  parsed(mod, annotateAst(mod.source), findImportsAndExports(mod.source))

(***************************************************************************)
(* sortModules                                                             *)
(***************************************************************************)
RECURSIVE visit(_, _, _)
RECURSIVE visitImports(_, _, _, _)
\* visit( mod ), with mod = moduleLookup[ id ]: st holds seen and ordered.
\* A module is one object, held by bundle.modules and by moduleLookup alike:
\* the model keeps the objects in moduleLookup and their ids in modules.
visit(id, moduleLookup, st) ==
  IF ~hasOwnProp(moduleLookup, id) \/ moduleLookup[id].id \in st.seen THEN st
  ELSE LET mod == moduleLookup[id]
           after == visitImports(mod.imports, 1, moduleLookup,
                                 [st EXCEPT !.seen = @ \cup {mod.id}])
       IN [after EXCEPT !.ordered = Append(@, mod.id)]

visitImports(imports, i, moduleLookup, st) ==
  IF i > Len(imports) THEN st
  ELSE visitImports(imports, i + 1, moduleLookup,
                    visit(imports[i].id, moduleLookup, st))

\* ordered.unshift( mod ) in place of ordered.push( mod )
unshifted(entry, moduleLookup) ==
  LET ordered == visit(entry, moduleLookup, [seen |-> {}, ordered |-> <<>>]).ordered
  IN [i \in 1..Len(ordered) |-> ordered[Len(ordered) + 1 - i]]

sortModules(entry, moduleLookup) ==
  visit(entry, moduleLookup, [seen |-> {}, ordered |-> <<>>]).ordered

(***************************************************************************)
(* getUniqueNames                                                          *)
(***************************************************************************)
\* names inferred from default imports, module by module, import by import
RECURSIVE inferNames(_, _, _, _)
inferNames(modules, m, i, st) ==
  IF m > Len(modules) THEN st
  ELSE IF i > Len(modules[m].imports) THEN inferNames(modules, m + 1, 1, st)
  ELSE LET x == modules[m].imports[i]
       IN inferNames(modules, m, i + 1,
            IF x.isDefault /\ ~hasOwnProp(st.names, x.id) /\ x.as \notin st.used
            THEN [names |-> set(st.names, x.id, x.as),
                  used |-> st.used \cup {x.as}]
            ELSE st)

\* parts.slice( i ).join( '_' ), sanitized, for i = parts.length - 1 .. 0:
\* the first that is unused, else the last one tried
RECURSIVE compactName(_, _, _)
compactName(parts, i, used) ==
  LET name == sanitize(join(SubSeq(parts, i + 1, Len(parts)), <<"_">>))
  IN IF name \notin used \/ i = 0 THEN name
     ELSE compactName(parts, i - 1, used)

RECURSIVE underscored(_, _)
underscored(name, used) ==
  IF name \in used THEN underscored(<<"_">> \o name, used) ELSE name

RECURSIVE nameRest(_, _, _)
nameRest(mods, i, st) ==
  IF i > Len(mods) THEN st
  ELSE IF hasOwnProp(st.names, mods[i].id) THEN nameRest(mods, i + 1, st)
  ELSE LET parts == splitPath(mods[i].id)
           name == underscored(compactName(parts, Len(parts) - 1, st.used),
                               st.used)
       IN nameRest(mods, i + 1,
                   [names |-> set(st.names, mods[i].id, name),
                    used |-> st.used \cup {name}])

\* modules and externalModules: the objects, in the order of the arrays
getUniqueNames(modules, externalModules, userNames) ==
  LET copied == [names |-> userNames,
                 used |-> builtinSet
                          \cup {userNames[n] : n \in DOMAIN userNames}]
      inferred == inferNames(modules, 1, 1, copied)
  IN nameRest(modules \o externalModules, 1, inferred).names

\* The objects an array of ids stands for
objects(ids, lookup) ==
  [i \in 1..Len(ids) |-> lookup[ids[i]]]

\* '' + value
str(value) ==
  IF value = undefined THEN <<"u", "n", "d", "e", "f", "i", "n", "e", "d">>
  ELSE value

atSign ==
  <<"@">>

\* str.indexOf( c ), counted from 1; 0 when absent
indexOf(s, c) ==
  IF \E i \in 1..Len(s) : s[i] = c
  THEN CHOOSE i \in 1..Len(s) : s[i] = c /\ \A j \in 1..(i - 1) : s[j] # c
  ELSE 0

(***************************************************************************)
(* resolveChains                                                           *)
(***************************************************************************)
\* origin, after the imports of a module: the last specifier aliased s.as
\* that is not a batch wins
RECURSIVE originOf(_, _, _, _)
originOf(imports, i, j, origin) ==
  IF i > Len(imports) THEN origin
  ELSE IF j > Len(imports[i].specifiers) THEN originOf(imports, i + 1, 1, origin)
  ELSE LET x == imports[i]
           s == x.specifiers[j]
       IN originOf(imports, i, j + 1,
            IF s.isBatch THEN origin
            ELSE set(origin, s.as, str(x.id) \o atSign \o s.name))

RECURSIVE chainExports(_, _, _, _, _, _)
chainExports(mod, origin, exports, i, j, chains) ==
  IF i > Len(exports) THEN chains
  ELSE IF ~exports[i].hasSpecifiers \/ j > Len(exports[i].specifiers)
  THEN chainExports(mod, origin, exports, i + 1, 1, chains)
  ELSE LET s == exports[i].specifiers[j]
       IN chainExports(mod, origin, exports, i, j + 1,
            IF hasOwnProp(origin, s.name)
            THEN set(chains, mod.id \o atSign \o s.name, origin[s.name])
            ELSE chains)

RECURSIVE chainModules(_, _, _)
chainModules(modules, i, chains) ==
  IF i > Len(modules) THEN chains
  ELSE chainModules(modules, i + 1,
         chainExports(modules[i], originOf(modules[i].imports, 1, 1, emptyObject),
                      modules[i].exports, 1, 1, chains))

\* The ids of the local modules some sorted module imports as a namespace
exportsNamespace(modules, moduleLookup) ==
  {id \in DOMAIN moduleLookup :
     \E m \in 1..Len(modules) : \E i \in 1..Len(modules[m].imports) :
       /\ modules[m].imports[i].id = id
       /\ \E j \in 1..Len(modules[m].imports[i].specifiers) :
            modules[m].imports[i].specifiers[j].isBatch}

\* The chains of the sorted modules, and moduleLookup with _exportsNamespace
\* set on what they import as a namespace
chainsOf(sorted, moduleLookup) ==
  [chains |-> chainModules(sorted, 1, emptyObject),
   moduleLookup |->
     [id \in DOMAIN moduleLookup |->
        IF id \in exportsNamespace(sorted, moduleLookup)
        THEN [moduleLookup[id] EXCEPT !._exportsNamespace = TRUE]
        ELSE moduleLookup[id]]]

resolveChains(modules, moduleLookup) ==
  chainsOf(objects(modules, moduleLookup), moduleLookup)

\* while ( hasOwnProp.call( chains, hash ) ) hash = chains[ hash ]: the hash
\* reached, whether a link was followed, and whether the loop never ends
RECURSIVE followChain(_, _, _)
followChain(chains, hash, seen) ==
  IF ~hasOwnProp(chains, hash)
  THEN [hash |-> hash, isChained |-> seen # {}, diverges |-> FALSE]
  ELSE IF hash \in seen
  THEN [hash |-> hash, isChained |-> TRUE, diverges |-> TRUE]
  ELSE followChain(chains, chains[hash], seen \cup {hash})

(***************************************************************************)
(* populateExternalModuleImports                                           *)
(***************************************************************************)
\* Some specifier of some import of the external module, in a sorted module,
\* is (default) or is not (named) a default specifier
needs(bundle, id, default_) ==
  \E m \in 1..Len(bundle.modules) :
    LET mod == bundle.moduleLookup[bundle.modules[m]]
    IN \E i \in 1..Len(mod.imports) :
         /\ mod.imports[i].id = id
         /\ \E j \in 1..Len(mod.imports[i].specifiers) :
              mod.imports[i].specifiers[j].isDefault = default_

populateExternalModuleImports(bundle) ==
  [bundle EXCEPT !.externalModuleLookup =
     [id \in DOMAIN @ |->
        [@[id] EXCEPT !.needsDefault = needs(bundle, id, TRUE),
                      !.needsNamed = needs(bundle, id, FALSE)]]]

(***************************************************************************)
(* topLevelScopeConflicts                                                  *)
(***************************************************************************)
RECURSIVE renamedFrom(_, _, _, _)
renamedFrom(imports, i, j, renamed) ==
  IF i > Len(imports) THEN renamed
  ELSE IF j > Len(imports[i].specifiers) THEN renamedFrom(imports, i + 1, 1, renamed)
  ELSE LET s == imports[i].specifiers[j]
       IN renamedFrom(imports, i, j + 1,
            IF s.name # s.as /\ ~includes(renamed, s.name)
            THEN Append(renamed, s.name) ELSE renamed)

getRenamedImports(mod) ==
  renamedFrom(mod.imports, 1, 1, <<>>)

\* The names a module merges into the bundle's top scope, in order
scopeNames(bundle, mod) ==
  builtins
  \o mod.ast_._topLevelNames
  \o getUnscopedNames(mod)
  \o [i \in 1..Len(bundle.externalModules) |->
        bundle.externalModuleLookup[bundle.externalModules[i]].name]
  \o getRenamedImports(mod)

RECURSIVE mergedNames(_, _)
mergedNames(bundle, i) ==
  IF i > Len(bundle.modules) THEN <<>>
  ELSE scopeNames(bundle, bundle.moduleLookup[bundle.modules[i]])
       \o mergedNames(bundle, i + 1)

\* The names that occur twice in a sequence
repeated(names) ==
  {names[j] : j \in {j \in 1..Len(names) :
                        \E i \in 1..(j - 1) : names[i] = names[j]}}

\* A name conflicts when it is merged while already in the bundle's scope:
\* it occurs twice in the names merged, module after module.  The name of a
\* module that exports a namespace conflicts too.
topLevelScopeConflicts(bundle) ==
  repeated(mergedNames(bundle, 1))
  \cup {bundle.moduleLookup[id].name :
          id \in {id \in DOMAIN bundle.moduleLookup :
                    /\ includes(bundle.modules, id)
                    /\ bundle.moduleLookup[id]._exportsNamespace}}

(***************************************************************************)
(* populateIdentifierReplacements                                          *)
(***************************************************************************)
underscores ==
  <<"_", "_">>

otherModulesDeclare(bundle, mod, replacement) ==
  \E i \in 1..Len(bundle.modules) :
    /\ bundle.modules[i] # mod.id
    /\ replacement \in bundle.moduleLookup[bundle.modules[i]].ast_._declared

\* The identifier that stands for the default export of a module
defaultReplacement(bundle, conflicts, mod) ==
  LET x == mod.defaultExport
  IN IF x.hasDeclaration /\ x.name # undefined
     THEN IF x.name \in conflicts \/ otherModulesDeclare(bundle, mod, x.name)
          THEN str(mod.name) \o underscores \o x.name
          ELSE x.name
     ELSE IF \/ mod.name \in conflicts
             \/ (x.value # mod.name /\ includes(mod.ast_._topLevelNames, mod.name))
             \/ otherModulesDeclare(bundle, mod, mod.name)
          THEN str(mod.name) \o underscores \o default
          ELSE mod.name

\* bundle.moduleLookup[ id ] || bundle.externalModuleLookup[ id ] is an object
hasModule(bundle, id) ==
  hasOwnProp(bundle.moduleLookup, id) \/ hasOwnProp(bundle.externalModuleLookup, id)

\* ( bundle.moduleLookup[ id ] || bundle.externalModuleLookup[ id ] ).name
nameOf(bundle, id) ==
  IF hasOwnProp(bundle.moduleLookup, id) THEN bundle.moduleLookup[id].name
  ELSE bundle.externalModuleLookup[id].name

\* What one specifier of an import is replaced by: [error, replacement]
specifierReplacement(bundle, conflicts, x, s) ==
  LET isExternal == hasOwnProp(bundle.externalModuleLookup, x.id)
      followed == followChain(bundle.chains, str(x.id) \o atSign \o s.name, {})
      separatorIndex == indexOf(followed.hash, "@")
      moduleId == IF followed.isChained
                  THEN SubSeq(followed.hash, 1, separatorIndex - 1)
                  ELSE x.id
      specifierName == IF followed.isChained
                       THEN SubSeq(followed.hash, separatorIndex + 1,
                                   Len(followed.hash))
                       ELSE s.name
      moduleName == IF hasModule(bundle, moduleId) THEN nameOf(bundle, moduleId)
                    ELSE undefined
  IN IF s.isBatch
     THEN IF ~hasModule(bundle, x.id)
          THEN [error |-> "TypeError", replacement |-> undefined]
          ELSE [error |-> "none", replacement |-> nameOf(bundle, x.id)]
     ELSE IF followed.diverges
     THEN [error |-> "never returns", replacement |-> undefined]
     ELSE IF /\ specifierName = default /\ ~isExternal
             /\ ~hasOwnProp(bundle.moduleLookup, moduleId)
             /\ hasOwnProp(bundle.externalModuleLookup, moduleId)
     \* mod is an external module: mod.identifierReplacements is undefined
     THEN [error |-> "TypeError", replacement |-> undefined]
     ELSE [error |-> "none",
           replacement |->
             IF specifierName = default
             THEN IF isExternal
                  THEN IF bundle.externalModuleLookup[x.id].needsNamed
                       THEN str(moduleName) \o underscores \o default
                       ELSE moduleName
                  ELSE IF hasOwnProp(bundle.moduleLookup, moduleId)
                  THEN get(bundle.moduleLookup[moduleId].identifierReplacements,
                           default)
                  ELSE undefined
             ELSE IF ~isExternal
             THEN IF specifierName \in conflicts
                  THEN str(moduleName) \o underscores \o specifierName
                  ELSE specifierName
             ELSE str(moduleName) \o <<".">> \o specifierName]

RECURSIVE replaceTopLevelNames(_, _, _, _, _)
replaceTopLevelNames(mod, conflicts, names, i, moduleIdentifiers) ==
  IF i > Len(names) THEN moduleIdentifiers
  ELSE replaceTopLevelNames(mod, conflicts, names, i + 1,
         set(moduleIdentifiers, names[i],
             IF names[i] \in conflicts
             THEN str(mod.name) \o underscores \o names[i]
             ELSE names[i]))

\* st: [error, moduleIdentifiers]
\* if ( replacement !== s.as ) moduleIdentifiers[ s.as ] = replacement, with
\* r what the specifier is replaced by; st: [error, moduleIdentifiers]
replaceSpecifier(st, s, r) ==
  IF r.error # "none" THEN [st EXCEPT !.error = r.error]
  ELSE IF r.replacement # s.as
  THEN [st EXCEPT !.moduleIdentifiers = set(@, s.as, r.replacement)]
  ELSE st

RECURSIVE replaceImports(_, _, _, _, _, _)
replaceImports(bundle, conflicts, imports, i, j, st) ==
  IF i > Len(imports) \/ st.error # "none" THEN st
  ELSE IF imports[i].passthrough \/ j > Len(imports[i].specifiers)
  THEN replaceImports(bundle, conflicts, imports, i + 1, 1, st)
  ELSE replaceImports(bundle, conflicts, imports, i, j + 1,
         replaceSpecifier(st, imports[i].specifiers[j],
           specifierReplacement(bundle, conflicts, imports[i],
                                imports[i].specifiers[j])))

\* The replacements of one module: the top-level names, then the imports
replaceIn(bundle, conflicts, mod) ==
  replaceImports(bundle, conflicts, mod.imports, 1, 1,
    [error |-> "none",
     moduleIdentifiers |->
       replaceTopLevelNames(mod, conflicts, mod.ast_._topLevelNames, 1,
                            mod.identifierReplacements)])

\* mod.identifierReplacements, filled in; bundle.error is what was thrown
filled(bundle, id, st) ==
  [bundle EXCEPT !.error = st.error,
                 !.moduleLookup[id].identifierReplacements = st.moduleIdentifiers]

\* The second pass, module by module
RECURSIVE replaceModules(_, _, _)
replaceModules(bundle, conflicts, i) ==
  IF i > Len(bundle.modules) \/ bundle.error # "none" THEN bundle
  ELSE replaceModules(
         filled(bundle, bundle.modules[i],
                replaceIn(bundle, conflicts,
                          bundle.moduleLookup[bundle.modules[i]])),
         conflicts, i + 1)

\* The first pass: the identifier of every default export
replaceDefaults(bundle, conflicts) ==
  [bundle EXCEPT !.moduleLookup =
     [id \in DOMAIN @ |->
        IF includes(bundle.modules, id) /\ @[id].hasDefaultExport
        THEN [@[id] EXCEPT !.identifierReplacements =
                set(@, default,
                    defaultReplacement(bundle, conflicts,
                                       bundle.moduleLookup[id]))]
        ELSE @[id]]]

\* Both passes, once the conflicts are known
replaceGiven(bundle, conflicts) ==
  replaceModules(replaceDefaults(bundle, conflicts), conflicts, 1)

populateIdentifierReplacements(bundle) ==
  replaceGiven(bundle, topLevelScopeConflicts(bundle))

(***************************************************************************)
(* resolveExports                                                          *)
(***************************************************************************)
\* hash.split( '@' ): the first two pieces
split0(hash) ==
  IF indexOf(hash, "@") = 0 THEN hash
  ELSE SubSeq(hash, 1, indexOf(hash, "@") - 1)

\* The piece after the first separator, up to the second
afterSeparator(hash) ==
  split0(SubSeq(hash, indexOf(hash, "@") + 1, Len(hash)))

split1(hash) ==
  IF indexOf(hash, "@") = 0 THEN undefined ELSE afterSeparator(hash)

\* An object whose keys are enumerated: the keys in the order they were first
\* set (Object.keys), and the values
emptyOrdered ==
  [keys |-> <<>>, value |-> emptyObject]

setOrdered(object, key, value) ==
  [keys |-> IF includes(object.keys, key) THEN object.keys
            ELSE Append(object.keys, key),
   value |-> set(object.value, key, value)]

addExport(bundleExports, moduleId, name, as) ==
  set(bundleExports, moduleId,
      setOrdered(IF hasOwnProp(bundleExports, moduleId)
                 THEN bundleExports[moduleId] ELSE emptyOrdered,
                 name, as))

\* st: [error, bundleExports]
RECURSIVE resolveFrom(_, _, _, _)
resolveFrom(bundle, i, j, st) ==
  LET exports == bundle.moduleLookup[bundle.entry].exports
  IN IF i > Len(exports) \/ st.error # "none" THEN st
     ELSE LET x == exports[i]
          IN IF x.hasSpecifiers
             THEN IF j > Len(x.specifiers) THEN resolveFrom(bundle, i + 1, 1, st)
                  ELSE LET s == x.specifiers[j]
                           followed == followChain(bundle.chains,
                                         bundle.entry \o atSign \o s.name, {})
                       IN resolveFrom(bundle, i, j + 1,
                            IF followed.diverges
                            THEN [st EXCEPT !.error = "never returns"]
                            ELSE [st EXCEPT !.bundleExports =
                                    addExport(@, split0(followed.hash),
                                              split1(followed.hash), s.name)])
             ELSE resolveFrom(bundle, i + 1, 1,
                    IF ~x.isDefault /\ x.name # undefined
                    THEN [st EXCEPT !.bundleExports =
                            addExport(@, bundle.entry, x.name, x.name)]
                    ELSE st)

resolveExports(bundle) ==
  resolveFrom(bundle, 1, 1, [error |-> "none", bundleExports |-> emptyObject])

(***************************************************************************)
(* The body of a module: the text is left as it is, and what the           *)
(* transformation does to it is the sequence of its edits, each over a     *)
(* range of positions of the syntax tree.                                  *)
(***************************************************************************)
\* node.start and node.end, for the node at a path
start(path) ==
  [at |-> path, edge |-> "start"]

end(path) ==
  [at |-> path, edge |-> "end"]

\* source.length
sourceLength ==
  end(root)

\* body.replace( from, to, text )
replace(from, to, text) ==
  [op |-> "replace", from |-> from, to |-> to, text |-> text]

\* body.insert( where, text )
insert(where, text) ==
  [op |-> "insert", from |-> where, to |-> where, text |-> text]

\* body.remove( from, to )
remove(from, to) ==
  [op |-> "remove", from |-> from, to |-> to, text |-> <<>>]

\* body.prepend( text )
prepend(text) ==
  [op |-> "prepend", from |-> start(root), to |-> start(root), text |-> text]

\* body.append( text )
append(text) ==
  [op |-> "append", from |-> sourceLength, to |-> sourceLength, text |-> text]

(***************************************************************************)
(* getReadOnlyIdentifiers                                                  *)
(***************************************************************************)
importedAs(imports, isBatch) ==
  UNION {{imports[i].specifiers[j].as :
            j \in {j \in 1..Len(imports[i].specifiers) :
                     imports[i].specifiers[j].isBatch = isBatch}} :
           i \in {i \in 1..Len(imports) : ~imports[i].passthrough}}

getReadOnlyIdentifiers(imports) ==
  [importedBindings |-> importedAs(imports, FALSE),
   importedNamespaces |-> importedAs(imports, TRUE)]

(***************************************************************************)
(* traverseAst and what it calls on entering a node                        *)
(***************************************************************************)
bindingMessage ==
  "Cannot reassign imported binding"

namespaceMessage ==
  "Cannot reassign imported binding of namespace"

\* The assignee of an assignment or an update; Null for any other node
assigneeOf(node) ==
  IF node.type = "AssignmentExpression" THEN node.left
  ELSE IF node.type = "UpdateExpression" THEN node.argument
  ELSE Null

\* The message disallowIllegalReassignment throws, or "none"
disallowIllegalReassignment(node, importedBindings, importedNamespaces, scopes, scope) ==
  LET target == assigneeOf(node)
      isNamespaceAssignment == target.type = "MemberExpression"
      assignee == IF isNamespaceAssignment THEN target.object ELSE target
  IN IF assignee.type # "Identifier" THEN "none"
     ELSE IF /\ assignee.name \in (IF isNamespaceAssignment
                                   THEN importedNamespaces ELSE importedBindings)
             /\ ~contains(scopes, scope, assignee.name, FALSE)
     THEN IF isNamespaceAssignment THEN namespaceMessage ELSE bindingMessage
     ELSE "none"

\* The edit replaceIdentifiers makes, if any
replaceIdentifiers(node, path, identifierReplacements, scopes, scope) ==
  LET name == node.name
      replacement == get(identifierReplacements, name)
  IN IF /\ hasOwnProp(identifierReplacements, name)
        /\ replacement # undefined /\ replacement # <<>>
        /\ replacement # name
        /\ ~contains(scopes, scope, name, TRUE)
     THEN << replace(start(path), end(path), replacement) >>
     ELSE <<>>

\* rewriteExportAssignments, on the state of the traversal
rewriteExportAssignments(st, node, path, exports, scopes) ==
  LET assignee == assigneeOf(node)
      name == assignee.name
      exportAs == exports.value[name]
  IN IF assignee.type # "Identifier" THEN st
     ELSE IF contains(scopes, st.scope, name, TRUE) THEN st
     ELSE IF ~hasOwnProp(exports.value, name) THEN st
     ELSE IF st.capturedUpdates # null
     THEN [st EXCEPT !.arrays[st.capturedUpdates] =
                       Append(@, [name |-> name, exportAs |-> exportAs])]
     ELSE [st EXCEPT
             !.edits = Append(@,
               IF node.type = "UpdateExpression"
               THEN replace(end(path), end(path),
                            <<",", " ", "e", "x", "p", "o", "r", "t", "s", ".">> \o exportAs \o <<" ", "=", " ">> \o name)
               ELSE replace(start(path), start(path),
                            <<"e", "x", "p", "o", "r", "t", "s", ".">> \o exportAs \o <<" ", "=", " ">>)),
             !.alreadyExported = IF st.scope = root THEN @ \cup {name} ELSE @]

exportCapturedUpdate(c) ==
  <<" ", "e", "x", "p", "o", "r", "t", "s", ".">> \o c.name \o <<" ", "=", " ">> \o c.exportAs \o <<";">>

RECURSIVE exportCapturedUpdates(_)
exportCapturedUpdates(updates) ==
  IF updates = <<>> THEN <<>>
  ELSE exportCapturedUpdate(updates[1]) \o exportCapturedUpdates(Tail(updates))

\* enter.  Arrays are objects: capturedUpdates and previousCapturedUpdates
\* hold the number of an array of st.arrays, or null.
enter(mod, node, path, parentType, st0, importedBindings, importedNamespaces, exportNames) ==
  LET st == IF path \in DOMAIN mod.ast_.scopes
            THEN [st0 EXCEPT !.scope = path] ELSE st0
      illegal == disallowIllegalReassignment(node, importedBindings,
                   importedNamespaces, mod.ast_.scopes, st.scope)
      rewritten == rewriteExportAssignments(st, node, path, exportNames,
                                            mod.ast_.scopes)
  IN IF node.type = "VariableDeclaration"
     THEN [st EXCEPT !.previousCapturedUpdates = st.capturedUpdates,
                     !.capturedUpdates = Len(st.arrays) + 1,
                     !.arrays = Append(@, <<>>)]
     ELSE IF illegal # "none" THEN [st EXCEPT !.error = illegal]
     ELSE [rewritten EXCEPT
             !.edits = @
               \o (IF node.type = "Identifier" /\ parentType # "FunctionExpression"
                   THEN replaceIdentifiers(node, path, mod.identifierReplacements,
                                           mod.ast_.scopes, st.scope)
                   ELSE <<>>)
               \o (IF node.type = "ThisExpression" /\ path \in mod.ast_.topLevel
                   THEN << replace(start(path), end(path), <<"u", "n", "d", "e", "f", "i", "n", "e", "d">>) >>
                   ELSE <<>>)]

leave(mod, node, path, st0) ==
  LET st == IF node.type = "VariableDeclaration"
            THEN [st0 EXCEPT
                    !.edits = IF st0.arrays[st0.capturedUpdates] # <<>>
                              THEN Append(@, insert(end(path),
                                     exportCapturedUpdates(
                                       st0.arrays[st0.capturedUpdates])))
                              ELSE @,
                    !.capturedUpdates = st0.previousCapturedUpdates]
            ELSE st0
  IN IF path \in DOMAIN mod.ast_.scopes
     THEN [st EXCEPT !.scope = mod.ast_.scopes[st.scope].parent]
     ELSE st

RECURSIVE traverseNode(_, _, _, _, _, _, _, _)
RECURSIVE traverseChildren(_, _, _, _, _, _, _, _, _)
traverseNode(mod, node, path, parentType, st0, importedBindings, importedNamespaces, exportNames) ==
  IF st0.error # "none" \/ path \in mod.ast_.skip THEN st0
  ELSE LET st == enter(mod, node, path, parentType, st0, importedBindings,
                       importedNamespaces, exportNames)
           after == traverseChildren(mod, children(node), node.type, path, 1, st,
                      importedBindings, importedNamespaces, exportNames)
       IN IF st.error # "none" THEN st
          ELSE IF after.error # "none" THEN after
          ELSE leave(mod, node, path, after)

traverseChildren(mod, nodes, parentType, path, i, st, importedBindings, importedNamespaces, exportNames) ==
  IF i > Len(nodes) \/ st.error # "none" THEN st
  ELSE traverseChildren(mod, nodes, parentType, path, i + 1,
         traverseNode(mod, nodes[i], Append(path, i), parentType, st,
                      importedBindings, importedNamespaces, exportNames),
         importedBindings, importedNamespaces, exportNames)

\* traverseAst: [error, edits, alreadyExported] and the variables of the
\* traversal
traverseAst(mod, importedBindings, importedNamespaces, exportNames) ==
  traverseNode(mod, mod.ast, root, "none",
    [error |-> "none", scope |-> root, capturedUpdates |-> null,
     previousCapturedUpdates |-> null, arrays |-> <<>>, edits |-> <<>>,
     alreadyExported |-> {}],
    importedBindings, importedNamespaces, exportNames)

(***************************************************************************)
(* transformBody, of a module of a bundle                                  *)
(***************************************************************************)
\* x.start, x.end, x.valueStart and x.next of the declaration that is the
\* statement x.at of the program: next is the start of the first statement
\* after it that is not empty, or the length of the source
RECURSIVE nextOf(_, _)
nextOf(body, i) ==
  IF i + 1 > Len(body) THEN sourceLength
  ELSE IF body[i + 1].type = "EmptyStatement" /\ i + 2 <= Len(body)
  THEN nextOf(body, i + 1)
  ELSE IF body[i + 1].type = "EmptyStatement" THEN sourceLength
  ELSE start(<< i + 1 >>)

valueStart(x) ==
  start(<< x.at, 1 >>)

RECURSIVE removeImports(_, _, _)
removeImports(mod, i, edits) ==
  IF i > Len(mod.imports) THEN edits
  ELSE removeImports(mod, i + 1,
         IF mod.imports[i].passthrough THEN edits
         ELSE Append(edits, remove(start(<< mod.imports[i].at >>),
                                   nextOf(mod.ast.body, mod.imports[i].at))))

\* The edit that removes or rewrites one export statement
removeExport(mod, x) ==
  LET identifierReplacements == mod.identifierReplacements
      d == x.node.declaration
      original == IF hasOwnProp(identifierReplacements, d.name)
                  THEN identifierReplacements[d.name] ELSE d.name
  IN IF x.isDefault
     THEN IF x.type \in {"namedFunction", "namedClass"}
          THEN remove(start(<< x.at >>), valueStart(x))
          ELSE IF d.type = "Identifier"
          THEN IF d.name = get(identifierReplacements, default)
               THEN remove(start(<< x.at >>), end(<< x.at >>))
               ELSE replace(start(<< x.at >>), end(<< x.at >>),
                      <<"v", "a", "r", " ">> \o str(get(identifierReplacements, default))
                      \o <<" ", "=", " ">> \o str(original) \o <<";">>)
          ELSE replace(start(<< x.at >>), valueStart(x),
                 <<"v", "a", "r", " ">> \o str(get(identifierReplacements, default))
                 \o <<" ", "=", " ">>)
     ELSE IF x.hasDeclaration
     THEN remove(start(<< x.at >>), valueStart(x))
     ELSE remove(start(<< x.at >>), nextOf(mod.ast.body, x.at))

indentStr ==
  <<"\t">>

RECURSIVE specifierGetters(_, _)
specifierGetters(specifiers, i) ==
  IF i > Len(specifiers) THEN <<>>
  ELSE << indentStr \o <<"g", "e", "t", " ">> \o specifiers[i].name \o <<" ", "(", ")", " ", "{", " ", "r", "e", "t", "u", "r", "n", " ">>
          \o specifiers[i].name \o <<";", " ", "}">> >>
       \o specifierGetters(specifiers, i + 1)

RECURSIVE namespaceExports(_, _)
namespaceExports(mod, i) ==
  IF i > Len(mod.exports) THEN <<>>
  ELSE LET x == mod.exports[i]
       IN (IF x.hasDeclaration
           THEN << indentStr \o <<"g", "e", "t", " ">> \o str(x.name) \o <<" ", "(", ")", " ", "{", " ", "r", "e", "t", "u", "r", "n", " ">>
                   \o str(get(mod.identifierReplacements, x.name)) \o <<";", " ", "}">> >>
           ELSE IF x.isDefault
           THEN << indentStr \o <<"g", "e", "t", " ", "d", "e", "f", "a", "u", "l", "t", " ", "(", ")", " ", "{", " ", "r", "e", "t", "u", "r", "n", " ">>
                   \o str(get(mod.identifierReplacements, default)) \o <<";", " ", "}">> >>
           ELSE specifierGetters(x.specifiers, 1))
          \o namespaceExports(mod, i + 1)

namespaceExportBlock(mod) ==
  <<"v", "a", "r", " ">> \o str(mod.name) \o <<" ", "=", " ", "{", "\n">>
  \o join(namespaceExports(mod, 1), <<",", "\n">>) \o <<"\n", "}", ";", "\n", "\n">>

RECURSIVE exportBlock(_, _, _, _)
exportBlock(mod, exportNames, alreadyExported, i) ==
  IF i > Len(exportNames.keys) THEN <<>>
  ELSE LET name == exportNames.keys[i]
       IN (IF name \in alreadyExported THEN <<>>
           ELSE << <<"e", "x", "p", "o", "r", "t", "s", ".">> \o str(exportNames.value[name]) \o <<" ", "=", " ">>
                   \o str(get(mod.identifierReplacements, name)) \o <<";">> >>)
          \o exportBlock(mod, exportNames, alreadyExported, i + 1)

\* What follows the traversal: the imports and the exports are removed, the
\* namespace block is prepended and the export block appended
edited(mod, traversed, block) ==
  IF traversed.error # "none"
  THEN [error |-> traversed.error, edits |-> <<>>]
  ELSE [error |-> "none",
        edits |->
          removeImports(mod, 1, traversed.edits)
          \o [i \in 1..Len(mod.exports) |-> removeExport(mod, mod.exports[i])]
          \o (IF mod._exportsNamespace
              THEN << prepend(namespaceExportBlock(mod)) >> ELSE <<>>)
          \o (IF block # <<>>
              THEN << append(<<"\n", "\n">> \o join(block, <<"\n">>)) >>
              ELSE <<>>)]

transformed(mod, exportNames, traversed) ==
  edited(mod, traversed,
         exportBlock(mod, exportNames, traversed.alreadyExported, 1))

transformWith(mod, readOnly, exportNames) ==
  transformed(mod, exportNames,
              traverseAst(mod, readOnly.importedBindings,
                          readOnly.importedNamespaces, exportNames))

\* transformBody: [error, edits]
transformBody__transformBody(bundle, mod) ==
  transformWith(mod, getReadOnlyIdentifiers(mod.imports),
                IF hasOwnProp(bundle.exports, mod.id)
                THEN bundle.exports[mod.id] ELSE emptyOrdered)

(***************************************************************************)
(* combine                                                                 *)
(***************************************************************************)
\* bundle.modules.forEach( setName ); bundle.externalModules.forEach( setName )
setNames(bundle, uniqueNames) ==
  [bundle EXCEPT
     !.moduleLookup = [id \in DOMAIN @ |->
                         IF includes(bundle.modules, id)
                         THEN [@[id] EXCEPT !.name = uniqueNames[id]]
                         ELSE @[id]],
     !.externalModuleLookup = [id \in DOMAIN @ |->
                                 [@[id] EXCEPT !.name = uniqueNames[id]]]]

\* The first specifier of the first import of a module that the imported
\* local module does not export: the message thrown, or "none"
doesNotExport(bundle, mod) ==
  IF \E i \in 1..Len(mod.imports) :
       /\ hasOwnProp(bundle.moduleLookup, mod.imports[i].id)
       /\ ~mod.imports[i].isBatch
       /\ \E j \in 1..Len(mod.imports[i].specifiers) :
            mod.imports[i].specifiers[j].name
              \notin bundle.moduleLookup[mod.imports[i].id].doesExport
  THEN "does not export"
  ELSE "none"

\* body.addSource, unless the check or the transformation threw
addSource(bundle, id, missing, content) ==
  IF missing # "none" THEN [bundle EXCEPT !.error = missing]
  ELSE IF content.error # "none" THEN [bundle EXCEPT !.error = content.error]
  ELSE [bundle EXCEPT !.body = Append(@, [id |-> id, edits |-> content.edits])]

\* The modules in order: check the imports, then transform the body
RECURSIVE addSources(_, _)
addSources(bundle, i) ==
  IF i > Len(bundle.modules) \/ bundle.error # "none" THEN bundle
  ELSE addSources(
         addSource(bundle, bundle.modules[i],
           doesNotExport(bundle, bundle.moduleLookup[bundle.modules[i]]),
           transformBody__transformBody(bundle,
             bundle.moduleLookup[bundle.modules[i]])),
         i + 1)

\* bundle.exports = resolveExports( bundle ), unless it never returns
exported(bundle, exports) ==
  IF exports.error # "none" THEN [bundle EXCEPT !.error = exports.error]
  ELSE addSources([bundle EXCEPT !.exports = exports.bundleExports], 1)

\* What combine does once the identifiers are replaced
combineReplaced(bundle) ==
  IF bundle.error # "none" THEN bundle
  ELSE exported(bundle, resolveExports(bundle))

\* combine: bundle.error says what was thrown, if anything; bundle.body is
\* the content of each source added
combine(bundle) ==
  combineReplaced(
    populateIdentifierReplacements(
      populateExternalModuleImports(
        setNames(bundle,
          getUniqueNames(objects(bundle.modules, bundle.moduleLookup),
                         objects(bundle.externalModules,
                                 bundle.externalModuleLookup),
                         bundle.names)))))

(***************************************************************************)
(* getBundle.  The file system is files, a function from the paths that    *)
(* exist (relative to the base) to the program each file parses to.  A     *)
(* stat or a read in flight is a task; its completion, with the callbacks  *)
(* that run on it, is one step.                                            *)
(***************************************************************************)
VARIABLES files, options, pc, tasks, entryPath, modules, moduleLookup,
          promiseByPath, promises, externalModules, externalModuleLookup,
          error, bundle, run, previous, output

vars ==
  << files, options, pc, tasks, entryPath, modules, moduleLookup,
     promiseByPath, promises, externalModules, externalModuleLookup,
     error, bundle, run, previous, output >>

\* What a call leaves unchanged: the files and the options
inputs ==
  << files, options >>

\* The importer of the entry module
nobody ==
  <<>>

\* path.resolve( base, moduleId + '.js' ) and
\* path.resolve( base, moduleId, 'index.js' ), relative to the base
tryPaths(moduleId) ==
  << moduleId \o <<".", "j", "s">>, moduleId \o <<"/", "i", "n", "d", "e", "x", ".", "j", "s">> >>

\* sander.stat( path ) of attempt number try of resolvePath
stat(importer, k, moduleId, try) ==
  [kind |-> "stat", importer |-> importer, k |-> k, id |-> moduleId,
   try |-> try, path |-> tryPaths(moduleId)[try]]

\* sander.readFile( modulePath )
readFile(moduleId, modulePath) ==
  [kind |-> "read", importer |-> nobody, k |-> 0, id |-> moduleId,
   try |-> 0, path |-> modulePath]

\* The state of the promise an import maps to
pending ==
  [state |-> "pending", path |-> <<>>]

done ==
  [state |-> "done", path |-> <<>>]

\* A promise that does not wait for the module
notAwaited(modulePath) ==
  done

fetching(modulePath) ==
  [state |-> "fetching", path |-> modulePath]

noBundle ==
  [error |-> "no bundle"]

\* No emitter was called
noOutput ==
  [call |-> "none"]

\* The state getBundle starts from
started(r, prev) ==
  /\ pc = "resolving"
  /\ tasks = {stat(nobody, 0, stripJs(options.entry), 1)}
  /\ entryPath = undefined
  /\ modules = <<>>
  /\ moduleLookup = emptyObject
  /\ promiseByPath = {}
  /\ promises = emptyObject
  /\ externalModules = <<>>
  /\ externalModuleLookup = emptyObject
  /\ error = "none"
  /\ bundle = noBundle
  /\ run = r
  /\ previous = prev
  /\ output = noOutput

\* A rejection reaches the promise getBundle returned: the first one stays
reject(reason) ==
  /\ error' = IF pc = "failed" THEN error ELSE reason
  /\ pc' = "failed"

\* fetchModule( moduleId, modulePath ), called with no promise for the path
fetchModule(moduleId, modulePath, rest) ==
  /\ promiseByPath' = promiseByPath \cup {modulePath}
  /\ tasks' = rest \cup {readFile(moduleId, modulePath)}

\* The stat of the entry completes
EntryStat(t) ==
  /\ t \in tasks /\ t.kind = "stat" /\ t.importer = nobody
  /\ IF t.path \in DOMAIN files
     THEN /\ fetchModule(t.id, t.path, tasks \ {t})
          /\ entryPath' = t.path
          /\ pc' = "loading"
          /\ UNCHANGED error
     ELSE IF t.try = 1
     THEN /\ tasks' = (tasks \ {t}) \cup {stat(nobody, 0, t.id, 2)}
          /\ UNCHANGED << promiseByPath, entryPath, pc, error >>
     ELSE /\ tasks' = tasks \ {t}
          /\ reject("Could not find entry module")
          /\ UNCHANGED << promiseByPath, entryPath >>
  /\ UNCHANGED << inputs, modules, moduleLookup, promises, externalModules,
                  externalModuleLookup, bundle, run, previous, output >>

\* module.imports.map without the comparison of x.id with moduleId
RECURSIVE mapAnyImports(_, _, _)
mapAnyImports(module, k, st) ==
  IF k > Len(module.imports) THEN st
  ELSE LET id == resolveId(module.imports[k].path, module.relativePath)
       IN mapAnyImports(module, k + 1,
            IF includes(options.skip, id)
            THEN [st EXCEPT !.imports[k].id = id, !.promises = Append(@, done)]
            ELSE [st EXCEPT
                    !.imports[k].id = id,
                    !.promises = Append(@, pending),
                    !.stats = @ \cup {stat(module.path, k, id, 1)}])

\* module.imports.map: x.id is set import after import, up to the one that
\* throws; what each import before it maps to
RECURSIVE mapImports(_, _, _)
mapImports(module, k, st) ==
  IF k > Len(module.imports) \/ st.error # "none" THEN st
  ELSE LET id == resolveId(module.imports[k].path, module.relativePath)
           resolved == [st EXCEPT !.imports[k].id = id]
       IN mapImports(module, k + 1,
            IF id = module.id
            THEN [resolved EXCEPT !.error = "cannot import itself"]
            ELSE IF includes(options.skip, id)
            THEN [resolved EXCEPT !.promises = Append(@, done)]
            ELSE [resolved EXCEPT
                    !.promises = Append(@, pending),
                    !.stats = @ \cup {stat(module.path, k, id, 1)}])

\* What files holds for a path that sander.stat finds and sander.readFile
\* does not: the file was removed in between, and the read fails with ENOENT
gone ==
  Program(<< [type |-> "ENOENT"] >>)

\* A read completes: the source is parsed, the module is registered, and
\* every import is resolved
\* (a rejection of the read reaches the promise getBundle returned: it is
\* the promise the handler of the stat returns, which handleError is not
\* attached to)
ReadFile(t) ==
  /\ t \in tasks /\ t.kind = "read"
  /\ \E got \in {IF files[t.path] = gone THEN [error |-> "ENOENT", mod |-> Null]
                  ELSE getModule([source |-> files[t.path], id |-> t.id,
                                  relativePath |-> t.path, path |-> t.path])} :
       IF got.error # "none"
       THEN /\ reject(got.error)
            /\ tasks' = tasks \ {t}
            /\ UNCHANGED << modules, moduleLookup, promises >>
       ELSE \E mapped \in {mapImports(got.mod, 1,
                              [error |-> "none", imports |-> got.mod.imports,
                               promises |-> <<>>, stats |-> {}])} :
              /\ modules' = Append(modules, t.id)
              /\ moduleLookup' = set(moduleLookup, t.id,
                                     [got.mod EXCEPT !.imports = mapped.imports])
              /\ tasks' = (tasks \ {t}) \cup mapped.stats
              /\ IF mapped.error # "none"
                 THEN reject(mapped.error) /\ UNCHANGED promises
                 ELSE /\ promises' = set(promises, t.path, mapped.promises)
                      /\ UNCHANGED << pc, error >>
  /\ UNCHANGED << inputs, entryPath, promiseByPath, externalModules,
                  externalModuleLookup, bundle, run, previous, output >>

\* What the promise of import t.k of the importer becomes.  An importer
\* that threw while mapping its imports has no array of promises.
settle(t, state) ==
  IF hasOwnProp(promises, t.importer)
  THEN [promises EXCEPT ![t.importer][t.k] = state]
  ELSE promises

\* No path is ever taken to be in progress
neverInProgress(modulePath) ==
  FALSE

\* hasOwnProp.call( promiseByPath, modulePath ): the path is being read or was
\* read, the cycle is cut short
inProgress(modulePath) ==
  modulePath \in promiseByPath

\* The stat of an import completes
Stat(t) ==
  /\ t \in tasks /\ t.kind = "stat" /\ t.importer # nobody
  /\ IF t.path \in DOMAIN files
     THEN IF inProgress(t.path)
          THEN /\ tasks' = tasks \ {t}
               /\ promises' = settle(t, done)
               /\ UNCHANGED promiseByPath
          ELSE /\ fetchModule(t.id, t.path, tasks \ {t})
               /\ promises' = settle(t, fetching(t.path))
     ELSE IF t.try = 1
     THEN /\ tasks' = (tasks \ {t}) \cup {stat(t.importer, t.k, t.id, 2)}
          /\ UNCHANGED << promiseByPath, promises >>
     ELSE /\ tasks' = tasks \ {t}
          /\ promises' = settle(t, done)
          /\ UNCHANGED promiseByPath
  /\ IF t.path \notin DOMAIN files /\ t.try = 2
        /\ ~hasOwnProp(externalModuleLookup, t.id)
     THEN /\ externalModules' = Append(externalModules, t.id)
          /\ externalModuleLookup' =
               set(externalModuleLookup, t.id,
                   [id |-> t.id, name |-> undefined,
                    needsDefault |-> FALSE, needsNamed |-> FALSE])
     ELSE UNCHANGED << externalModules, externalModuleLookup >>
  /\ UNCHANGED << inputs, pc, entryPath, modules, moduleLookup, error, bundle,
                  run, previous, output >>

\* The promise fetchModule returned for a path is resolved
RECURSIVE resolved(_)
resolved(modulePath) ==
  /\ hasOwnProp(promises, modulePath)
  /\ \A k \in 1..Len(promises[modulePath]) :
       \/ promises[modulePath][k].state = "done"
       \/ /\ promises[modulePath][k].state = "fetching"
          /\ resolved(promises[modulePath][k].path)

\* The bundle the entry's promise resolves to, before it is combined
chainedBundle(ordered, chained) ==
  [entry |-> stripJs(options.entry),
   modules |-> ordered,
   moduleLookup |-> chained.moduleLookup,
   externalModules |-> externalModules,
   externalModuleLookup |-> externalModuleLookup,
   skip |-> options.skip,
   names |-> options.names,
   chains |-> chained.chains,
   exports |-> emptyObject,
   body |-> <<>>,
   edits |-> <<>>,
   error |-> "none"]

sortedBundle(ordered) ==
  chainedBundle(ordered, resolveChains(ordered, moduleLookup))

newBundle ==
  sortedBundle(sortModules(stripJs(options.entry), moduleLookup))

\* Every module is loaded: the modules are sorted and combined
Built ==
  /\ pc = "loading"
  /\ resolved(entryPath)
  /\ \E combined \in {combine(newBundle)} :
       IF combined.error # "none"
       THEN reject(combined.error) /\ UNCHANGED bundle
       ELSE /\ pc' = "built"
            /\ bundle' = combined
            /\ UNCHANGED error
  /\ UNCHANGED << inputs, tasks, entryPath, modules, moduleLookup,
                  promiseByPath, promises, externalModules,
                  externalModuleLookup, run, previous, output >>

\* esperanto.bundle is called a second time, on the same files with the
\* same options, once the first call has settled and nothing is in flight
Restart ==
  /\ run = 1
  /\ pc \in {"built", "failed"}
  /\ tasks = {}
  /\ pc' = "resolving"
  /\ tasks' = {stat(nobody, 0, stripJs(options.entry), 1)}
  /\ entryPath' = undefined
  /\ modules' = <<>>
  /\ moduleLookup' = emptyObject
  /\ promiseByPath' = {}
  /\ promises' = emptyObject
  /\ externalModules' = <<>>
  /\ externalModuleLookup' = emptyObject
  /\ error' = "none"
  /\ bundle' = noBundle
  /\ run' = 2
  /\ previous' = [pc |-> pc, error |-> error, bundle |-> bundle]
  /\ UNCHANGED << inputs, output >>

\* No call before this one
noPrevious ==
  [pc |-> "none", error |-> "none", bundle |-> noBundle]

Step ==
  \/ \E t \in tasks : EntryStat(t)
  \/ \E t \in tasks : ReadFile(t)
  \/ \E t \in tasks : Stat(t)
  \/ Built

Next ==
  \/ Step
  \/ Restart

(***************************************************************************)
(* Loading: files that hold nothing but imports                            *)
(***************************************************************************)
MaxImports ==
  2

\* All the sequences over a set of at most n elements
SeqsUpTo(S, n) ==
  UNION {[1..k -> S] : k \in 0..n}

\* import 'path';
bareImport(path) ==
  ImportDeclaration(<<>>, path)

mainJs ==
  <<"m", "a", "i", "n", ".", "j", "s">>

aJs ==
  <<"a", ".", "j", "s">>

bJs ==
  <<"b", "/", "i", "n", "d", "e", "x", ".", "j", "s">>

\* The paths each file may import
ImportPool(path) ==
  IF path = mainJs THEN {<<".", "/", "a">>, <<".", "/", "b">>}
  ELSE IF path = aJs THEN {<<".", "/", "a">>, <<".", "/", "b">>, <<"x">>}
  ELSE {<<".", ".", "/", "a">>, <<".", ".", "/", "m", "a", "i", "n">>, <<"x">>, <<"y">>}

\* The imports of a file: at most MaxImports paths of its pool
Imports(path) ==
  SeqsUpTo(ImportPool(path), MaxImports)

programOf(paths) ==
  Program([i \in 1..Len(paths) |-> bareImport(paths[i])])

InitLoad ==
  /\ files \in {(mainJs :> programOf(m)) @@ (aJs :> programOf(a))
                 @@ (bJs :> programOf(b)) :
                   m \in Imports(mainJs), a \in Imports(aJs), b \in Imports(bJs)}
  /\ options = [entry |-> <<"m", "a", "i", "n">>, skip |-> <<>>, names |-> emptyObject]
  /\ started(1, noPrevious)

SpecLoad ==
  InitLoad /\ [][Next]_vars

(***************************************************************************)
(* Properties of loading                                                   *)
(***************************************************************************)
\* The ids of the local modules that module id imports
localImports(lookup, id) ==
  {lookup[id].imports[k].id : k \in 1..Len(lookup[id].imports)} \cap DOMAIN lookup

\* to is reached from module from along at most n local imports
RECURSIVE reaches(_, _, _, _)
reaches(lookup, from, to, n) ==
  /\ n > 0
  /\ \E via \in localImports(lookup, from) :
       via = to \/ reaches(lookup, via, to, n - 1)

\* No local module imports itself, directly or through other local modules
acyclic(lookup) ==
  \A id \in DOMAIN lookup : ~reaches(lookup, id, id, Cardinality(DOMAIN lookup))

\* Some import of the module resolves to the module's own id
importsItself(mod) ==
  \E k \in 1..Len(mod.imports) :
    resolveId(mod.imports[k].path, mod.relativePath) = mod.id

\* C1: the bundle a second call produces for the same files and options is
\* the bundle the first call produced, whatever the order in which the
\* stats and the reads of either call completed.
C1_SameBundleForEveryOrder ==
  (run = 2 /\ pc = "built" /\ previous.pc = "built") => bundle = previous.bundle

\* C2: in a built bundle whose local imports form no cycle, every local
\* module a module imports sits before that module in bundle.modules, and
\* the entry module is the last one.
C2_ImportsSortFirst ==
  (pc = "built" /\ acyclic(bundle.moduleLookup)) =>
    /\ bundle.modules[Len(bundle.modules)] = bundle.entry
    /\ \A i \in 1..Len(bundle.modules) :
         \A id \in localImports(bundle.moduleLookup, bundle.modules[i]) :
           \E j \in 1..(i - 1) : bundle.modules[j] = id

\* main imports a and b, a imports b: loaded as main, a, b and sorted as
\* b, a, main
C2_Witness ==
  /\ pc = "built"
  /\ acyclic(bundle.moduleLookup)
  /\ modules = << <<"m", "a", "i", "n">>, <<"a">>, <<"b">> >>
  /\ bundle.modules = << <<"b">>, <<"a">>, <<"m", "a", "i", "n">> >>
  /\ <<"b">> \in localImports(bundle.moduleLookup, <<"a">>)
  /\ <<"b">> \in localImports(bundle.moduleLookup, <<"m", "a", "i", "n">>)

\* C8: once a module is registered that has an import resolving to its own
\* id, loading has failed with 'cannot import itself' and there is no bundle.
C8_SelfImportFails ==
  \A id \in DOMAIN moduleLookup :
    importsItself(moduleLookup[id]) =>
      /\ pc = "failed"
      /\ error = "cannot import itself"
      /\ bundle = noBundle

\* a.js imports './a' and nothing is in flight any more
C8_Witness ==
  /\ pc = "failed"
  /\ tasks = {}
  /\ hasOwnProp(moduleLookup, <<"a">>)
  /\ importsItself(moduleLookup[<<"a">>])
  /\ bundle = noBundle

(***************************************************************************)
(* Combining: an entry module main.js that holds one import declaration    *)
(* and the statements of one body, and a module a.js                       *)
(***************************************************************************)
\* The import declaration main.js starts with
MainImports ==
  { bareImport(<<".", "/", "a">>),
    ImportDeclaration(<< ImportDefaultSpecifier(<<"d">>) >>, <<".", "/", "a">>),
    ImportDeclaration(<< ImportSpecifier(<<"v">>, <<"v">>) >>, <<".", "/", "a">>),
    ImportDeclaration(<< ImportNamespaceSpecifier(<<"n", "s">>) >>, <<".", "/", "a">>),
    ImportDeclaration(<< ImportDefaultSpecifier(<<"d">>),
                         ImportNamespaceSpecifier(<<"n", "s">>) >>, <<".", "/", "a">>),
    ImportDeclaration(<< ImportDefaultSpecifier(<<"d">>) >>, <<"e", "x", "t">>) }

\* name = 1;
assign(name) ==
  ExpressionStatement(AssignmentExpression(Identifier(name), Literal(<<"1">>)))

\* The statements that follow it
MainBodies ==
  { <<>>,
    \* var x;
    << VariableDeclaration("var", << VariableDeclarator(<<"x">>, Null) >>) >>,
    \* export var x = 1; x = 1;
    << ExportDeclaration(VariableDeclaration("var",
         << VariableDeclarator(<<"x">>, Literal(<<"1">>)) >>)),
       assign(<<"x">>) >>,
    \* export { v } from './a';
    << ExportFrom(<< ExportSpecifier(<<"v">>, <<"v">>) >>, <<".", "/", "a">>) >>,
    \* export { w } from 'ext';
    << ExportFrom(<< ExportSpecifier(<<"w">>, <<"w">>) >>, <<"e", "x", "t">>) >>,
    \* export { v };
    << ExportSpecifiers(<< ExportSpecifier(<<"v">>, <<"v">>) >>) >>,
    \* d = 1;
    << assign(<<"d">>) >>,
    \* var f = function d () {}; d = 1;
    << VariableDeclaration("var", << VariableDeclarator(<<"f">>,
         FunctionExpression(Identifier(<<"d">>), <<>>, <<>>)) >>),
       assign(<<"d">>) >>,
    \* function g ( d ) { d = 1; }
    << FunctionDeclaration(<<"g">>, << <<"d">> >>, << assign(<<"d">>) >>) >>,
    \* v++;
    << ExpressionStatement(UpdateExpression("++", Identifier(<<"v">>))) >>,
    \* ns.p = 1;
    << ExpressionStatement(AssignmentExpression(
         MemberExpression(Identifier(<<"n", "s">>), Identifier(<<"p">>), FALSE),
         Literal(<<"1">>))) >> }

\* What a.js holds
OtherBodies ==
  { \* var x;
    << VariableDeclaration("var", << VariableDeclarator(<<"x">>, Null) >>) >>,
    \* export var v = 9;
    << ExportDeclaration(VariableDeclaration("var",
         << VariableDeclarator(<<"v">>, Literal(<<"9">>)) >>)) >>,
    \* export default 1;
    << ExportDefaultDeclaration(Literal(<<"1">>)) >>,
    \* export default 1; export var v = 9;
    << ExportDefaultDeclaration(Literal(<<"1">>)),
       ExportDeclaration(VariableDeclaration("var",
         << VariableDeclarator(<<"v">>, Literal(<<"9">>)) >>)) >> }

\* options.names: none, one name for two modules, the name of a built-in
UserNames ==
  { emptyObject,
    (<<"m", "a", "i", "n">> :> <<"f", "o", "o">>) @@ (<<"a">> :> <<"f", "o", "o">>),
    (<<"a">> :> <<"M", "a", "p">>) }

InitCombine ==
  /\ files \in {(mainJs :> Program(<< i >> \o m)) @@ (aJs :> Program(a)) :
                  i \in MainImports, m \in MainBodies, a \in OtherBodies}
  /\ options \in {[entry |-> <<"m", "a", "i", "n">>, skip |-> <<>>, names |-> n] :
                    n \in UserNames}
  /\ started(1, noPrevious)

SpecCombine ==
  InitCombine /\ [][Next]_vars

(***************************************************************************)
(* Properties of combining                                                 *)
(***************************************************************************)
\* Loading is over and combine has returned or thrown
combined ==
  pc \in {"built", "failed"} /\ resolved(entryPath)

\* The local and the external modules of a bundle, as objects
localModules(b) ==
  {b.moduleLookup[id] : id \in {b.modules[i] : i \in 1..Len(b.modules)}}

allModules(b) ==
  localModules(b)
  \cup {b.externalModuleLookup[id] :
          id \in {b.externalModules[i] : i \in 1..Len(b.externalModules)}}

\* The names a module declares at top level
topLevelNames(mod) ==
  {mod.ast_._topLevelNames[i] : i \in 1..Len(mod.ast_._topLevelNames)}

\* C3: two distinct modules of a built bundle that declare the same name at
\* top level have different replacements for it.
C3_SharedNamesAreToldApart ==
  pc = "built" =>
    \A m, n \in localModules(bundle) :
      m.id # n.id =>
        \A x \in topLevelNames(m) \cap topLevelNames(n) :
          get(m.identifierReplacements, x) # get(n.identifierReplacements, x)

\* C5: in a built bundle no two modules, local or external, have the same
\* name, and no module has the name of a built-in.
C5_NamesAreUnique ==
  pc = "built" =>
    /\ \A m, n \in allModules(bundle) : m.id # n.id => m.name # n.name
    /\ \A m \in allModules(bundle) : m.name \notin builtinSet

\* The names a module exports, other than the default
namedExports(mod) ==
  UNION {IF mod.exports[i].isDefault THEN {}
         ELSE IF mod.exports[i].hasSpecifiers
         THEN {mod.exports[i].specifiers[j].name :
                 j \in 1..Len(mod.exports[i].specifiers)}
         ELSE {mod.exports[i].name} : i \in 1..Len(mod.exports)}

\* The id of the module the chain from entry@e ends in
ownerOf(b, e) ==
  split0(followChain(b.chains, b.entry \o atSign \o e, {}).hash)

\* sub occurs in the text s
occursIn(sub, s) ==
  \E i \in 0..(Len(s) - Len(sub)) : SubSeq(s, i + 1, i + Len(sub)) = sub

\* Some edit of the body of module id writes exports.e
writesExport(b, id, e) ==
  \E k \in 1..Len(b.body) :
    /\ b.body[k].id = id
    /\ \E j \in 1..Len(b.body[k].edits) :
         occursIn(<<"e", "x", "p", "o", "r", "t", "s", ".">> \o e \o <<" ", "=">>, b.body[k].edits[j].text)

\* C4: every named export of the entry module of a built bundle is written,
\* as exports.e, in the body of the module its chain ends in.
C4_EveryNamedExportIsWritten ==
  pc = "built" =>
    \A e \in namedExports(bundle.moduleLookup[bundle.entry]) :
      writesExport(bundle, ownerOf(bundle, e), e)

\* Import i of a loaded module has a specifier, batch or not, whose name the
\* local module it imports does not export
missing(mod, i, isBatch) ==
  /\ hasOwnProp(moduleLookup, mod.imports[i].id)
  /\ \E j \in 1..Len(mod.imports[i].specifiers) :
       /\ mod.imports[i].specifiers[j].isBatch = isBatch
       /\ mod.imports[i].specifiers[j].name
            \notin moduleLookup[mod.imports[i].id].doesExport

\* Some loaded module imports, by a default or a named specifier, what the
\* imported module does not export
importsMissing ==
  \E id \in DOMAIN moduleLookup :
    \E i \in 1..Len(moduleLookup[id].imports) :
      missing(moduleLookup[id], i, FALSE)

\* C6: combining fails with 'does not export' when a default or named
\* specifier imports what the local module does not export, and never on
\* account of a namespace specifier.
C6_OnlyMissingNamesFail ==
  combined =>
    /\ importsMissing => pc = "failed" /\ error = "does not export"
    /\ error = "does not export" => importsMissing

\* The node at a path of child indices below a node
RECURSIVE nodeAt(_, _)
nodeAt(node, path) ==
  IF path = <<>> THEN node
  ELSE nodeAt(children(node)[Head(path)], Tail(path))

\* The paths of a node and of everything below it
RECURSIVE pathsOf(_, _)
pathsOf(node, path) ==
  {path} \cup UNION {pathsOf(children(node)[i], Append(path, i)) :
                       i \in 1..Len(children(node))}

functionTypes ==
  {"FunctionDeclaration", "FunctionExpression", "ArrowFunctionExpression"}

\* A declaration of the name below the node, in no function below it
RECURSIVE hoists(_, _)
hoists(node, name) ==
  IF node.type = "VariableDeclaration"
  THEN \E k \in 1..Len(node.declarations) : node.declarations[k].id.name = name
  ELSE IF node.type \in {"FunctionDeclaration", "ClassDeclaration"}
  THEN node.id.name = name
  ELSE /\ node.type \notin functionTypes
       /\ \E i \in 1..Len(children(node)) : hoists(children(node)[i], name)

\* The function binds the name: a parameter, the name of the function
\* expression itself, or a declaration in its body
binds(fn, name) ==
  \/ \E k \in 1..Len(fn.params) : fn.params[k].name = name
  \/ fn.type = "FunctionExpression" /\ fn.id.type = "Identifier" /\ fn.id.name = name
  \/ hoists(fn.body, name)

\* At the path, the name is that of a local declaration
shadowed(ast, path, name) ==
  \/ hoists(ast, name)
  \/ \E k \in 1..Len(path) :
       /\ nodeAt(ast, SubSeq(path, 1, k)).type \in functionTypes
       /\ binds(nodeAt(ast, SubSeq(path, 1, k)), name)

\* What an assignment or an update expression assigns to
targetOf(node) ==
  IF node.type = "AssignmentExpression" THEN node.left
  ELSE IF node.type = "UpdateExpression" THEN node.argument
  ELSE Null

\* The node at the path assigns to an imported binding
reassignsBinding(mod, path) ==
  LET target == targetOf(nodeAt(mod.ast, path))
  IN /\ target.type = "Identifier"
     /\ target.name \in importedAs(mod.imports, FALSE)
     /\ ~shadowed(mod.ast, path, target.name)

\* The node at the path assigns to a property of an imported namespace
reassignsNamespace(mod, path) ==
  LET target == targetOf(nodeAt(mod.ast, path))
  IN /\ target.type = "MemberExpression"
     /\ target.object.type = "Identifier"
     /\ target.object.name \in importedAs(mod.imports, TRUE)
     /\ ~shadowed(mod.ast, path, target.object.name)

\* C7: when a loaded module assigns to an imported binding, or to a property
\* of an imported namespace, combining fails and there is no bundle; unless
\* an import was found missing first, the message is that of the
\* reassignment.
C7_ReassignmentFails ==
  combined =>
    \A id \in DOMAIN moduleLookup :
      \A path \in pathsOf(moduleLookup[id].ast, <<>>) :
        /\ reassignsBinding(moduleLookup[id], path) =>
             /\ pc = "failed" /\ bundle = noBundle
             /\ error # "does not export" => error = bindingMessage
        /\ reassignsNamespace(moduleLookup[id], path) =>
             /\ pc = "failed" /\ bundle = noBundle
             /\ error # "does not export" => error = namespaceMessage

(***************************************************************************)
(* The text the emitters write                                             *)
(***************************************************************************)
\* quote( str ), of a string that holds no quote and no backslash
quote(s) ==
  <<"'">> \o s \o <<"'">>

\* req( path )
req(path) ==
  <<"r", "e", "q", "u", "i", "r", "e", "(">> \o quote(path) \o <<")">>

\* '' + n, for a number
RECURSIVE decimal(_)
decimal(n) ==
  IF n < 10 THEN << <<"0", "1", "2", "3", "4", "5", "6", "7", "8", "9">>[n + 1] >>
  ELSE decimal(n \div 10) \o decimal(n % 10)

\* /^__dep\d+__$/.test( name )
isPlaceholder(name) ==
  /\ Len(name) >= 8
  /\ SubSeq(name, 1, 5) = <<"_", "_", "d", "e", "p">>
  /\ SubSeq(name, Len(name) - 1, Len(name)) = <<"_", "_">>
  /\ \A i \in 6..(Len(name) - 2) : name[i] \in Digits

globalify(name) ==
  IF isPlaceholder(name) THEN <<"u", "n", "d", "e", "f", "i", "n", "e", "d">> ELSE <<"g", "l", "o", "b", "a", "l", ".">> \o name

\* array.map( f ), for the functions the emitters map
quoted(paths) ==
  [i \in 1..Len(paths) |-> quote(paths[i])]

required(paths) ==
  [i \in 1..Len(paths) |-> req(paths[i])]

globalified(names) ==
  [i \in 1..Len(names) |-> globalify(names[i])]

\* importPaths.map( resolveAgainst( opts.amdName ) ), if asked for
against(opts, importPaths) ==
  IF opts.absolutePaths
  THEN [i \in 1..Len(importPaths) |-> resolveId(importPaths[i], opts.amdName)]
  ELSE importPaths

\* text.replace( /\t/g, indentStr )
RECURSIVE indented(_, _)
indented(text, indent) ==
  IF text = <<>> THEN <<>>
  ELSE IF Len(text) = 1 THEN (IF text[1] = "\t" THEN indent ELSE text)
  ELSE indented(SubSeq(text, 1, Len(text) \div 2), indent)
       \o indented(SubSeq(text, Len(text) \div 2 + 1, Len(text)), indent)

\* opts.amdName ? quote( opts.amdName ) + ', ' : ''
amdNameOf(opts) ==
  IF opts.amdName # undefined THEN quote(opts.amdName) \o <<",", " ">> ELSE <<>>

\* '[' + paths.map( quote ).join( ', ' ) + '], ', or '' without any path
dependencies(paths) ==
  IF paths # <<>> THEN <<"[">> \o join(quoted(paths), <<",", " ">>) \o <<"]", ",", " ">> ELSE <<>>

\* The define( ... function ( ... ) { line of a single file in defaults mode
amd__introTemplate(amdName, paths, names) ==
  <<"d", "e", "f", "i", "n", "e", "(">> \o amdName \o paths \o <<"f", "u", "n", "c", "t", "i", "o", "n", " ", "(">> \o names \o <<")", " ", "{", "\n", "\n">>

\* The same line in strict mode, and for a bundle
strictMode_amd__introTemplate(amdName, paths, names) ==
  <<"d", "e", "f", "i", "n", "e", "(">> \o amdName \o paths \o <<"f", "u", "n", "c", "t", "i", "o", "n", " ", "(">> \o names
  \o <<")", " ", "{", "\n", "\n", "\t", "'", "u", "s", "e", " ", "s", "t", "r", "i", "c", "t", "'", ";", "\n", "\n">>

standaloneUmdIntro(opts, indent) ==
  indented(
    <<"(", "f", "u", "n", "c", "t", "i", "o", "n", " ", "(", "f", "a", "c", "t", "o", "r", "y", ")", " ", "{", "\n", "\t", "!", "(", "t", "y", "p", "e", "o", "f", " ", "e", "x", "p", "o", "r", "t", "s", " ", "=", "=", "=", " ", "'", "o", "b", "j", "e", "c", "t", "'", " ", "&", "&", " ", "t", "y", "p", "e", "o", "f", " ", "m", "o", "d", "u", "l", "e", " ", "!", "=", "=", " ", "'", "u", "n", "d", "e", "f", "i", "n", "e", "d", "'", ")", " ", "&", "&", "\n", "\t", "t", "y", "p", "e", "o", "f", " ", "d", "e", "f", "i", "n", "e", " ", "=", "=", "=", " ", "'", "f", "u", "n", "c", "t", "i", "o", "n", "'", " ", "&", "&", " ", "d", "e", "f", "i", "n", "e", ".", "a", "m", "d", " ", "?", " ", "d", "e", "f", "i", "n", "e", "(">>
    \o amdNameOf(opts)
    \o <<"f", "a", "c", "t", "o", "r", "y", ")", " ", ":", "\n", "\t", "f", "a", "c", "t", "o", "r", "y", "(", ")", "\n", "}", "(", "f", "u", "n", "c", "t", "i", "o", "n", " ", "(", ")", " ", "{", " ", "'", "u", "s", "e", " ", "s", "t", "r", "i", "c", "t", "'", ";", "\n", "\n">>,
    indent)

defaultUmdIntro(opts, indent) ==
  indented(
    <<"(", "f", "u", "n", "c", "t", "i", "o", "n", " ", "(", "g", "l", "o", "b", "a", "l", ",", " ", "f", "a", "c", "t", "o", "r", "y", ")", " ", "{", "\n", "\t", "t", "y", "p", "e", "o", "f", " ", "e", "x", "p", "o", "r", "t", "s", " ", "=", "=", "=", " ", "'", "o", "b", "j", "e", "c", "t", "'", " ", "&", "&", " ", "t", "y", "p", "e", "o", "f", " ", "m", "o", "d", "u", "l", "e", " ", "!", "=", "=", " ", "'", "u", "n", "d", "e", "f", "i", "n", "e", "d", "'", " ", "?", " ">>
    \o (IF opts.hasExports THEN <<"m", "o", "d", "u", "l", "e", ".", "e", "x", "p", "o", "r", "t", "s", " ", "=", " ">> ELSE <<>>)
    \o <<"f", "a", "c", "t", "o", "r", "y", "(">> \o join(required(opts.importPaths), <<",", " ">>) \o <<")">>
    \o <<" ", ":", "\n", "\t", "t", "y", "p", "e", "o", "f", " ", "d", "e", "f", "i", "n", "e", " ", "=", "=", "=", " ", "'", "f", "u", "n", "c", "t", "i", "o", "n", "'", " ", "&", "&", " ", "d", "e", "f", "i", "n", "e", ".", "a", "m", "d", " ", "?", " ", "d", "e", "f", "i", "n", "e", "(">>
    \o amdNameOf(opts)
    \o dependencies(against(opts, opts.importPaths))
    \o <<"f", "a", "c", "t", "o", "r", "y", ")", " ", ":", "\n", "\t">>
    \o (IF opts.hasExports
        THEN <<"g", "l", "o", "b", "a", "l", ".">> \o str(opts.name) \o <<" ", "=", " ">> ELSE <<>>)
    \o <<"f", "a", "c", "t", "o", "r", "y", "(">> \o join(globalified(opts.importNames), <<",", " ">>) \o <<")">>
    \o <<"\n", "}", "(", "t", "h", "i", "s", ",", " ", "f", "u", "n", "c", "t", "i", "o", "n", " ", "(">> \o join(opts.importNames, <<",", " ">>)
    \o <<")", " ", "{", " ", "'", "u", "s", "e", " ", "s", "t", "r", "i", "c", "t", "'", ";", "\n", "\n">>,
    indent)

\* hasExports ? [ first ] : []
exportsFirst(opts, first) ==
  IF opts.hasExports THEN << first >> ELSE <<>>

\* '\t' + name + " = ('default' in " + ... for each external module that
\* needs its default, then an empty line
RECURSIVE defaultsLines(_)
defaultsLines(externalDefaults) ==
  IF externalDefaults = <<>> THEN <<>>
  ELSE << <<"\t">>
          \o (IF externalDefaults[1].needsNamed
              THEN <<"v", "a", "r", " ">> \o externalDefaults[1].name \o <<"_", "_", "d", "e", "f", "a", "u", "l", "t">>
              ELSE externalDefaults[1].name)
          \o <<" ", "=", " ", "(", "'", "d", "e", "f", "a", "u", "l", "t", "'", " ", "i", "n", " ">> \o externalDefaults[1].name \o <<" ", "?", " ">>
          \o externalDefaults[1].name \o <<"[", "'", "d", "e", "f", "a", "u", "l", "t", "'", "]", " ", ":", " ">>
          \o externalDefaults[1].name \o <<")", ";">> >>
       \o defaultsLines(Tail(externalDefaults))

defaultsBlock(externalDefaults) ==
  IF externalDefaults = <<>> THEN <<>>
  ELSE join(defaultsLines(externalDefaults), <<"\n">>) \o <<"\n", "\n">>

strictUmdIntro(opts, indent) ==
  indented(
    <<"(", "f", "u", "n", "c", "t", "i", "o", "n", " ", "(", "g", "l", "o", "b", "a", "l", ",", " ", "f", "a", "c", "t", "o", "r", "y", ")", " ", "{", "\n", "\t", "t", "y", "p", "e", "o", "f", " ", "e", "x", "p", "o", "r", "t", "s", " ", "=", "=", "=", " ", "'", "o", "b", "j", "e", "c", "t", "'", " ", "&", "&", " ", "t", "y", "p", "e", "o", "f", " ", "m", "o", "d", "u", "l", "e", " ", "!", "=", "=", " ", "'", "u", "n", "d", "e", "f", "i", "n", "e", "d", "'", " ", "?", " ", "f", "a", "c", "t", "o", "r", "y", "(">>
    \o join(exportsFirst(opts, <<"e", "x", "p", "o", "r", "t", "s">>) \o required(opts.importPaths), <<",", " ">>)
    \o <<")", " ", ":", "\n", "\t", "t", "y", "p", "e", "o", "f", " ", "d", "e", "f", "i", "n", "e", " ", "=", "=", "=", " ", "'", "f", "u", "n", "c", "t", "i", "o", "n", "'", " ", "&", "&", " ", "d", "e", "f", "i", "n", "e", ".", "a", "m", "d", " ", "?", " ", "d", "e", "f", "i", "n", "e", "(">>
    \o (IF opts.amdName # undefined
        THEN <<"'">> \o opts.amdName \o <<"'", ",", " ">> ELSE <<>>)
    \o dependencies(exportsFirst(opts, <<"e", "x", "p", "o", "r", "t", "s">>)
                    \o against(opts, opts.importPaths))
    \o <<"f", "a", "c", "t", "o", "r", "y", ")", " ", ":", "\n", "\t", "f", "a", "c", "t", "o", "r", "y", "(">>
    \o join(exportsFirst(opts, <<"(", "g", "l", "o", "b", "a", "l", ".">> \o str(opts.name) \o <<" ", "=", " ", "{", "}", ")">>)
            \o globalified(opts.importNames), <<",", " ">>)
    \o <<")", "\n", "}", "(", "t", "h", "i", "s", ",", " ", "f", "u", "n", "c", "t", "i", "o", "n", " ", "(">>
    \o join(exportsFirst(opts, <<"e", "x", "p", "o", "r", "t", "s">>) \o opts.importNames, <<",", " ">>)
    \o <<")", " ", "{", " ", "'", "u", "s", "e", " ", "s", "t", "r", "i", "c", "t", "'", ";", "\n", "\n">>
    \o defaultsBlock(opts.externalDefaults),
    indent)

(***************************************************************************)
(* getStandaloneModule, for a source with no sourceMappingURL comment and  *)
(* options with no getModuleName                                           *)
(***************************************************************************)
hasNamedImports(mod) ==
  \E i \in 1..Len(mod.imports) : mod.imports[i].isNamed

\* hasNamedExports of a module whose exports are never looked at
noNamedExports(mod) ==
  FALSE

hasNamedExports(mod) ==
  \E i \in 1..Len(mod.exports) : ~mod.exports[i].isDefault

\* The first candidate no name of usedNames equals:
\* prefix + sanitize( parts.slice( i ).join( '__' ) ), for i from
\* parts.length - 1 down to 0, and then again with one more '_' in front
RECURSIVE candidateName(_, _, _, _)
candidateName(parts, i, prefix, usedNames) ==
  IF i < 0 THEN candidateName(parts, Len(parts) - 1, prefix \o <<"_">>, usedNames)
  ELSE IF (prefix \o sanitize(join(SubSeq(parts, i + 1, Len(parts)), <<"_", "_">>)))
            \notin usedNames
  THEN prefix \o sanitize(join(SubSeq(parts, i + 1, Len(parts)), <<"_", "_">>))
  ELSE candidateName(parts, i - 1, prefix, usedNames)

\* The first loop of determineImportNames: st holds imports, usedNames and
\* nameById
RECURSIVE namedByPath(_, _)
RECURSIVE namedAs(_, _, _)
namedByPath(i, st) ==
  IF i > Len(st.imports) THEN st
  ELSE IF hasOwnProp(st.nameById, st.imports[i].path)
  THEN namedByPath(i + 1,
         [st EXCEPT !.imports[i].name = st.nameById[st.imports[i].path]])
  ELSE namedAs(i, st,
         candidateName(splitPath(st.imports[i].path),
                       Len(splitPath(st.imports[i].path)) - 1, <<>>, st.usedNames))

namedAs(i, st, name) ==
  namedByPath(i + 1,
    [st EXCEPT !.usedNames = @ \cup {name},
               !.nameById = set(@, st.imports[i].path, name),
               !.imports[i].name = name])

\* inferredNames[ path ], when it has the key: the alias of the last import
\* of the path that has one which is not used
inferredName(st, path) ==
  LET from == {i \in 1..Len(st.imports) :
                 /\ st.imports[i].path = path
                 /\ st.imports[i].as # undefined
                 /\ st.imports[i].as \notin st.usedNames}
  IN IF from = {} THEN undefined
     ELSE st.imports[CHOOSE i \in from : \A j \in from : j <= i].as

\* The last loop of determineImportNames
inferred(st) ==
  [i \in 1..Len(st.imports) |->
     IF inferredName(st, st.imports[i].path) # undefined
     THEN [st.imports[i] EXCEPT !.name = inferredName(st, st.imports[i].path)]
     ELSE st.imports[i]]

\* determineImportNames: the imports, each with its name
determineImportNames(imports, usedNames) ==
  inferred(namedByPath(1, [imports |-> imports, usedNames |-> usedNames,
                           nameById |-> emptyObject]))

\* mod.ast of a module of which annotateAst was not called
notAnnotated ==
  [error |-> "none"]

\* Object.keys( mod.ast._declared ).concat( getUnscopedNames( mod ) ), as the
\* keys of conflicts
conflictsOf(mod) ==
  LET unscoped == getUnscopedNames(mod)
  IN mod.ast_._declared \cup {unscoped[i] : i \in 1..Len(unscoped)}

\* What getStandaloneModule throws, or "none"
standaloneThrown(found, annotations) ==
  IF found.error # "none" THEN found.error
  ELSE IF disallowConflictingImports(found.imports) # "none"
  THEN disallowConflictingImports(found.imports)
  ELSE annotations.error

\* The module, once nothing was thrown
standaloneNamed(mod, strict) ==
  [mod EXCEPT !.imports =
     determineImportNames(@, IF strict THEN conflictsOf(mod) ELSE {})]

standalone(source, strict, found, annotations, failure) ==
  IF failure # "none" THEN [error |-> failure, mod |-> Null]
  ELSE [error |-> "none",
        mod |-> standaloneNamed(
                  [ast |-> source,
                   ast_ |-> annotations,
                   imports |-> found.imports,
                   exports |-> found.exports,
                   hasDefaultExport |-> found.hasDefaultExport,
                   defaultExport |-> found.defaultExport,
                   identifierReplacements |-> emptyObject],
                  strict)]

standaloneFound(source, strict, found, annotations) ==
  standalone(source, strict, found, annotations,
             standaloneThrown(found, annotations))

\* getStandaloneModule: [error, mod]
getStandaloneModule(source, strict) ==
  standaloneFound(source, strict, findImportsAndExports(source),
                  IF strict THEN annotateAst(source) ELSE notAnnotated)

(***************************************************************************)
(* The emitters of a single file in defaults mode.  Each returns what it   *)
(* throws, if anything, and the edits made on mod.body until then.         *)
(***************************************************************************)
\* body.trim(), body.trimLines() and body.indent()
trim ==
  [op |-> "trim", from |-> start(root), to |-> sourceLength, text |-> <<>>]

trimLines ==
  [op |-> "trimLines", from |-> start(root), to |-> sourceLength, text |-> <<>>]

indent ==
  [op |-> "indent", from |-> start(root), to |-> sourceLength, text |-> indentStr]

useStrict ==
  <<"'", "u", "s", "e", " ", "s", "t", "r", "i", "c", "t", "'", ";", "\n", "\n">>

\* requireName without the test of options.name
anyName(opts) ==
  "none"

requireName(opts) ==
  IF opts.name = undefined \/ opts.name = <<>> THEN "MISSING_NAME" ELSE "none"

\* The while loop that pushes a name for every placeholder
RECURSIVE placed(_, _)
placed(importNames, placeholders) ==
  IF placeholders = 0 THEN importNames
  ELSE placed(Append(importNames,
                <<"_", "_", "d", "e", "p">> \o decimal(Len(importNames)) \o <<"_", "_">>),
              placeholders - 1)

\* The loop that gathers the paths and the names of the imports: names[i]
\* is the name pushed for import i, or undefined when a placeholder is
\* counted instead
RECURSIVE gathered(_, _, _, _)
gathered(paths, names, i, st) ==
  IF i > Len(paths) THEN st
  ELSE gathered(paths, names, i + 1,
         IF paths[i] \in st.seen THEN st
         ELSE IF names[i] # undefined
         THEN [seen |-> st.seen \cup {paths[i]},
               importPaths |-> Append(st.importPaths, paths[i]),
               importNames |-> Append(placed(st.importNames, st.placeholders),
                                      names[i]),
               placeholders |-> 0]
         ELSE [seen |-> st.seen \cup {paths[i]},
               importPaths |-> Append(st.importPaths, paths[i]),
               importNames |-> st.importNames,
               placeholders |-> st.placeholders + 1])

nothingGathered ==
  [seen |-> {}, importPaths |-> <<>>, importNames |-> <<>>, placeholders |-> 0]

\* mod.body.remove( x.start, x.next ), for every import
removals(mod) ==
  [i \in 1..Len(mod.imports) |->
     remove(start(<< mod.imports[i].at >>),
            nextOf(mod.ast.body, mod.imports[i].at))]

\* body.original[ declaration.end - 1 ] !== ';': the programs of the model
\* write no semicolon after a function or a class
endsWithSemicolon(x) ==
  x.node.declaration.type
    \notin {"FunctionExpression", "FunctionDeclaration", "ClassExpression",
            "ClassDeclaration"}

\* The value transformExportDeclaration returns at the end, if it has one
returned(exportedValue) ==
  IF exportedValue # undefined /\ exportedValue # <<>>
  THEN << append(<<"\n", "r", "e", "t", "u", "r", "n", " ">> \o exportedValue \o <<";">>) >>
  ELSE <<>>

\* transformExportDeclaration( mod.exports[0], mod.body ), for the statements
\* of the program
transformExportDeclaration(exports, statements) ==
  IF exports = <<>> THEN [error |-> "none", edits |-> <<>>]
  ELSE LET declaration == exports[1] IN
    IF declaration.type \in {"namedFunction", "namedClass"}
    THEN [error |-> "none",
          edits |-> << remove(start(<< declaration.at >>),
                              valueStart(declaration)) >>
                    \o returned(declaration.name)]
    ELSE IF declaration.type \in {"anonFunction", "anonClass"}
    THEN [error |-> "none",
          edits |->
            << replace(start(<< declaration.at >>), valueStart(declaration),
                       IF declaration.isFinal THEN <<"r", "e", "t", "u", "r", "n", " ">>
                       ELSE <<"v", "a", "r", " ", "_", "_", "e", "x", "p", "o", "r", "t", " ", "=", " ">>) >>
            \o (IF ~endsWithSemicolon(declaration)
                THEN << insert(end(<< declaration.at >>), <<";">>) >> ELSE <<>>)
            \o (IF declaration.isFinal THEN <<>> ELSE returned(<<"_", "_", "e", "x", "p", "o", "r", "t">>))]
    ELSE IF declaration.type = "expression"
    THEN [error |-> "none",
          edits |-> << remove(start(<< declaration.at >>),
                              nextOf(statements, declaration.at)) >>
                    \o returned(declaration.value)]
    ELSE [error |-> "Unexpected export type", edits |-> <<>>]

\* What the emitters of a single file do after the export declaration
wrapped(removed, exportEdits, wrapping) ==
  IF exportEdits.error # "none"
  THEN [error |-> exportEdits.error, edits |-> removed \o exportEdits.edits]
  ELSE [error |-> "none", edits |-> removed \o exportEdits.edits \o wrapping]

\* x.as, or undefined, of every import
aliases(imports) ==
  [i \in 1..Len(imports) |-> imports[i].as]

paths(imports) ==
  [i \in 1..Len(imports) |-> imports[i].path]

amdIntro(opts, summary) ==
  amd__introTemplate(
    amdNameOf(opts),
    dependencies(summary.importPaths),
    join(summary.importNames, <<",", " ">>))

amd__amd(mod, opts) ==
  wrapped(removals(mod),
          transformExportDeclaration(mod.exports, mod.ast.body),
          << trim, prepend(useStrict), trim, indent,
             prepend(amdIntro(opts,
               gathered(against(opts, paths(mod.imports)), aliases(mod.imports),
                        1, nothingGathered))),
             append(<<"\n", "\n", "}", ")", ";">>) >>)

\* The edit cjs makes for import i
requireEdit(mod, i) ==
  LET x == mod.imports[i] IN
  IF \E j \in 1..(i - 1) : mod.imports[j].path = x.path
  THEN remove(start(<< x.at >>), nextOf(mod.ast.body, x.at))
  ELSE replace(start(<< x.at >>), end(<< x.at >>),
         IF x.isEmpty THEN req(x.path) \o <<";">>
         ELSE <<"v", "a", "r", " ">> \o str(x.as) \o <<" ", "=", " ">> \o req(x.path) \o <<";">>)

\* The edits cjs makes for the first export: exportDeclaration.node.declaration
\* is null when the declaration is a list of specifiers
moduleExports(exports) ==
  IF exports = <<>> THEN [error |-> "none", edits |-> <<>>]
  ELSE LET exportDeclaration == exports[1] IN
    IF exportDeclaration.node.declaration.type = "Null"
    THEN [error |-> "TypeError", edits |-> <<>>]
    ELSE IF exportDeclaration.type \in {"namedFunction", "namedClass"}
    THEN [error |-> "none",
          edits |-> << remove(start(<< exportDeclaration.at >>),
                              start(<< exportDeclaration.at, 1 >>)),
                       replace(end(<< exportDeclaration.at >>),
                               end(<< exportDeclaration.at >>),
                               <<"\n", "m", "o", "d", "u", "l", "e", ".", "e", "x", "p", "o", "r", "t", "s", " ", "=", " ">>
                               \o exportDeclaration.node.declaration.id.name
                               \o <<";">>) >>]
    ELSE [error |-> "none",
          edits |-> << replace(start(<< exportDeclaration.at >>),
                               start(<< exportDeclaration.at, 1 >>),
                               <<"m", "o", "d", "u", "l", "e", ".", "e", "x", "p", "o", "r", "t", "s", " ", "=", " ">>) >>]

cjs__cjs(mod, opts) ==
  wrapped([i \in 1..Len(mod.imports) |-> requireEdit(mod, i)],
          moduleExports(mod.exports),
          << prepend(useStrict), trimLines >>)

umdIntro(mod, opts, summary) ==
  IF mod.imports = <<>> /\ mod.exports = <<>>
  THEN standaloneUmdIntro(opts, indentStr)
  ELSE defaultUmdIntro(
         [hasExports |-> mod.exports # <<>>,
          importPaths |-> summary.importPaths,
          importNames |-> summary.importNames,
          amdName |-> opts.amdName,
          absolutePaths |-> opts.absolutePaths,
          name |-> opts.name],
         indentStr)

umd__umd(mod, opts) ==
  IF requireName(opts) # "none"
  THEN [error |-> requireName(opts), edits |-> <<>>]
  ELSE wrapped(
         IF mod.imports = <<>> /\ mod.exports = <<>> THEN <<>> ELSE removals(mod),
         IF mod.imports = <<>> /\ mod.exports = <<>>
         THEN [error |-> "none", edits |-> <<>>]
         ELSE transformExportDeclaration(mod.exports, mod.ast.body),
         << indent,
            prepend(umdIntro(mod, opts,
              gathered(paths(mod.imports), aliases(mod.imports), 1,
                       nothingGathered))),
            trimLines, append(<<"\n", "\n", "}", ")", ")", ";">>) >>)

(***************************************************************************)
(* The emitters of a single file in strict mode                            *)
(***************************************************************************)
RECURSIVE gatherSpecifiers(_, _, _)
gatherSpecifiers(x, j, st) ==
  IF j > Len(x.specifiers) THEN st
  ELSE gatherSpecifiers(x, j + 1,
         IF x.specifiers[j].isBatch THEN st
         ELSE [chains |->
                 set(st.chains, x.specifiers[j].as,
                     str(x.name)
                     \o (IF x.specifiers[j].isDefault THEN <<"[", "'", "d", "e", "f", "a", "u", "l", "t", "'", "]">>
                         ELSE <<".">> \o x.specifiers[j].name)),
               identifierReplacements |->
                 IF x.passthrough THEN st.identifierReplacements
                 ELSE set(st.identifierReplacements, x.specifiers[j].as,
                          str(x.name)
                          \o (IF x.specifiers[j].isDefault THEN <<"[", "'", "d", "e", "f", "a", "u", "l", "t", "'", "]">>
                              ELSE <<".">> \o x.specifiers[j].name))])

RECURSIVE gatherFrom(_, _, _)
gatherFrom(imports, i, st) ==
  IF i > Len(imports) THEN st
  ELSE gatherFrom(imports, i + 1, gatherSpecifiers(imports[i], 1, st))

\* gatherImports: [chains, identifierReplacements]
gatherImports(imports) ==
  gatherFrom(imports, 1,
             [chains |-> emptyObject, identifierReplacements |-> emptyObject])

RECURSIVE specifierNames(_, _, _)
specifierNames(specifiers, j, result) ==
  IF j > Len(specifiers) THEN result
  ELSE specifierNames(specifiers, j + 1,
         setOrdered(result, specifiers[j].name, specifiers[j].name))

RECURSIVE exportNamesFrom(_, _, _)
exportNamesFrom(exports, i, result) ==
  IF i > Len(exports) THEN result
  ELSE exportNamesFrom(exports, i + 1,
         IF exports[i].isDefault THEN result
         ELSE IF exports[i].hasDeclaration
         THEN setOrdered(result, exports[i].name, exports[i].name)
         ELSE specifierNames(exports[i].specifiers, 1, result))

getExportNames(exports) ==
  exportNamesFrom(exports, 1, emptyOrdered)

RECURSIVE deconflict(_, _)
deconflict(name, declared) ==
  IF name \in declared THEN deconflict(<<"_">> \o name, declared) ELSE name

\* The edits that remove one export statement and keep its declaration
exportRemoval(mod, x) ==
  IF x.isDefault
  THEN IF x.type \in {"namedFunction", "namedClass"}
       THEN << remove(start(<< x.at >>), valueStart(x)),
               insert(end(<< x.at >>),
                      <<"\n", "e", "x", "p", "o", "r", "t", "s", "[", "'", "d", "e", "f", "a", "u", "l", "t", "'", "]", " ", "=", " ">> \o x.name \o <<";">>) >>
       ELSE << replace(start(<< x.at >>), valueStart(x),
                       <<"e", "x", "p", "o", "r", "t", "s", "[", "'", "d", "e", "f", "a", "u", "l", "t", "'", "]", " ", "=", " ">>) >>
  ELSE IF x.type \in {"varDeclaration", "namedFunction", "namedClass"}
  THEN << remove(start(<< x.at >>), valueStart(x)) >>
  ELSE IF x.type = "named"
  THEN << remove(start(<< x.at >>), nextOf(mod.ast.body, x.at)) >>
  ELSE << replace(start(<< x.at >>), valueStart(x),
                  <<"e", "x", "p", "o", "r", "t", "s", "[", "'", "d", "e", "f", "a", "u", "l", "t", "'", "]", " ", "=", " ">>) >>

RECURSIVE exportRemovals(_, _)
exportRemovals(mod, i) ==
  IF i > Len(mod.exports) THEN <<>>
  ELSE exportRemoval(mod, mod.exports[i]) \o exportRemovals(mod, i + 1)

\* earlyExports and lateExports, with options._evilES3SafeReExports not set
RECURSIVE earlyExports(_, _, _, _)
earlyExports(mod, exportNames, chains, i) ==
  IF i > Len(exportNames.keys) THEN <<>>
  ELSE (IF hasOwnProp(chains, exportNames.keys[i])
        THEN << <<"O", "b", "j", "e", "c", "t", ".", "d", "e", "f", "i", "n", "e", "P", "r", "o", "p", "e", "r", "t", "y", "(", "e", "x", "p", "o", "r", "t", "s", ",", " ", "'">>
                \o exportNames.value[exportNames.keys[i]]
                \o <<"'", ",", " ", "{", " ", "e", "n", "u", "m", "e", "r", "a", "b", "l", "e", ":", " ", "t", "r", "u", "e", ",", " ", "g", "e", "t", ":", " ", "f", "u", "n", "c", "t", "i", "o", "n", " ", "(", ")", " ", "{", " ", "r", "e", "t", "u", "r", "n", " ">>
                \o chains[exportNames.keys[i]] \o <<";", " ", "}", "}", ")", ";">> >>
        ELSE IF includes(mod.ast_._topLevelFunctionNames, exportNames.keys[i])
        THEN << <<"e", "x", "p", "o", "r", "t", "s", ".">> \o exportNames.value[exportNames.keys[i]]
                \o <<" ", "=", " ">> \o exportNames.keys[i] \o <<";">> >>
        ELSE <<>>)
       \o earlyExports(mod, exportNames, chains, i + 1)

RECURSIVE lateExports(_, _, _, _, _)
lateExports(mod, exportNames, chains, alreadyExported, i) ==
  IF i > Len(exportNames.keys) THEN <<>>
  ELSE (IF /\ ~hasOwnProp(chains, exportNames.keys[i])
           /\ ~includes(mod.ast_._topLevelFunctionNames, exportNames.keys[i])
           /\ exportNames.keys[i] \notin alreadyExported
        THEN << <<"e", "x", "p", "o", "r", "t", "s", ".">> \o exportNames.value[exportNames.keys[i]]
                \o <<" ", "=", " ">> \o exportNames.keys[i] \o <<";">> >>
        ELSE <<>>)
       \o lateExports(mod, exportNames, chains, alreadyExported, i + 1)

prependedExports(early) ==
  IF early = <<>> THEN <<>>
  ELSE << trim, prepend(join(early, <<"\n">>) \o <<"\n", "\n">>) >>

appendedExports(late) ==
  IF late = <<>> THEN <<>>
  ELSE << trim, append(<<"\n", "\n">> \o join(late, <<"\n">>)) >>

\* What utils/transformBody does after the traversal; opts holds header,
\* intro and outro, each empty when the option is not given
transformedBody(mod, traversed, exportNames, chains, opts) ==
  IF traversed.error # "none"
  THEN [error |-> traversed.error, edits |-> traversed.edits]
  ELSE [error |-> "none",
        edits |->
          removeImports(mod, 1, traversed.edits)
          \o (IF opts.header # <<>>
              THEN << prepend(opts.header \o <<"\n", "\n">>) >> ELSE <<>>)
          \o exportRemovals(mod, 1)
          \o prependedExports(earlyExports(mod, exportNames, chains, 1))
          \o appendedExports(lateExports(mod, exportNames, chains,
                                         traversed.alreadyExported, 1))
          \o (IF opts.intro # <<>> /\ opts.outro # <<>>
              THEN << indent, prepend(opts.intro), trimLines,
                      append(opts.outro) >>
              ELSE <<>>)]

traversedBody(mod, readOnly, exportNames, chains, opts) ==
  transformedBody(mod,
    traverseAst(mod, readOnly.importedBindings, readOnly.importedNamespaces,
                exportNames),
    exportNames, chains, opts)

gatheredBody(mod, gathering, opts) ==
  traversedBody(
    [mod EXCEPT !.identifierReplacements =
       set(gathering.identifierReplacements, <<"e", "x", "p", "o", "r", "t", "s">>,
           deconflict(<<"e", "x", "p", "o", "r", "t", "s">>, mod.ast_._declared))],
    getReadOnlyIdentifiers(mod.imports), getExportNames(mod.exports),
    gathering.chains, opts)

\* utils/transformBody: [error, edits]
utils_transformBody__transformBody(mod, opts) ==
  gatheredBody(mod, gatherImports(mod.imports), opts)

\* x.name of every import that has specifiers, undefined of one that has none
importNamesOf(imports) ==
  [i \in 1..Len(imports) |->
     IF imports[i].specifiers # <<>> THEN str(imports[i].name) ELSE undefined]

\* getImportSummary: importPaths and importNames
getImportSummary(mod) ==
  gathered(paths(mod.imports), importNamesOf(mod.imports), 1, nothingGathered)

\* list.unshift( 'exports' ), of a module that exports
unshiftExports(mod, list) ==
  IF mod.exports # <<>> THEN << <<"e", "x", "p", "o", "r", "t", "s">> >> \o list ELSE list

strictAmdIntro(mod, opts, summary) ==
  indented(
    strictMode_amd__introTemplate(
      IF opts.amdName # undefined THEN <<"'">> \o opts.amdName \o <<"'", ",", " ">> ELSE <<>>,
      dependencies(against(opts, unshiftExports(mod, summary.importPaths))),
      join(unshiftExports(mod, summary.importNames), <<",", " ">>)),
    indentStr)

strictMode_amd__amd(mod, opts) ==
  utils_transformBody__transformBody(mod,
    [header |-> <<>>,
     intro |-> strictAmdIntro(mod, opts, getImportSummary(mod)),
     outro |-> <<"\n", "\n", "}", ")", ";">>])

\* The require statements of the paths, each once
RECURSIVE importBlock(_, _)
importBlock(imports, i) ==
  IF i > Len(imports) THEN <<>>
  ELSE (IF \E j \in 1..(i - 1) : imports[j].path = imports[i].path THEN <<>>
        ELSE IF imports[i].isEmpty THEN << req(imports[i].path) \o <<";">> >>
        ELSE << <<"v", "a", "r", " ">> \o str(imports[i].name) \o <<" ", "=", " ">>
                \o req(imports[i].path) \o <<";">> >>)
       \o importBlock(imports, i + 1)

\* The edits an emitter makes after utils/transformBody returned
andThen(result, edits) ==
  IF result.error # "none" THEN result
  ELSE [result EXCEPT !.edits = @ \o edits]

strictMode_cjs__cjs(mod, opts) ==
  andThen(
    utils_transformBody__transformBody(mod,
      [header |-> join(importBlock(mod.imports, 1), <<"\n">>),
       intro |-> <<>>, outro |-> <<>>]),
    << prepend(useStrict), trimLines >>)

strictIntro(mod, opts, summary) ==
  IF mod.imports = <<>> /\ mod.exports = <<>>
  THEN standaloneUmdIntro(opts, indentStr)
  ELSE strictUmdIntro(
         [hasExports |-> mod.exports # <<>>,
          importPaths |-> summary.importPaths,
          importNames |-> summary.importNames,
          externalDefaults |-> <<>>,
          amdName |-> opts.amdName,
          absolutePaths |-> opts.absolutePaths,
          name |-> opts.name],
         indentStr)

strictMode_umd__umd(mod, opts) ==
  IF requireName(opts) # "none"
  THEN [error |-> requireName(opts), edits |-> <<>>]
  ELSE utils_transformBody__transformBody(mod,
         [header |-> <<>>,
          intro |-> strictIntro(mod, opts, getImportSummary(mod)),
          outro |-> <<"\n", "\n", "}", ")", ")", ";">>])

(***************************************************************************)
(* transpileMethod: what esperanto.toAmd, toCjs and toUmd do with a source *)
(* and its options                                                         *)
(***************************************************************************)
\* builder( mod, options ), for moduleBuilders[ mode ][ format ]
moduleBuilders(format, mod, opts) ==
  IF opts.strict
  THEN IF format = "amd" THEN strictMode_amd__amd(mod, opts)
       ELSE IF format = "cjs" THEN strictMode_cjs__cjs(mod, opts)
       ELSE strictMode_umd__umd(mod, opts)
  ELSE IF format = "amd" THEN amd__amd(mod, opts)
       ELSE IF format = "cjs" THEN cjs__cjs(mod, opts)
       ELSE umd__umd(mod, opts)

\* No builder was called
notBuilt(thrown_) ==
  [error |-> thrown_, builder |-> "none", edits |-> <<>>]

built(format, opts, result) ==
  [error |-> result.error,
   builder |-> IF opts.strict THEN "strictMode" ELSE "defaultsMode",
   edits |-> result.edits]

transpileModule(format, opts, got) ==
  IF got.error # "none" THEN notBuilt(got.error)
  ELSE IF opts.absolutePaths /\ opts.amdName = undefined
  THEN notBuilt("You must specify an amdName")
  ELSE IF ~opts.strict /\ (hasNamedImports(got.mod) \/ hasNamedExports(got.mod))
  THEN notBuilt("You must be in strict mode")
  ELSE built(format, opts, moduleBuilders(format, got.mod, opts))

\* transpileMethod( format )( source, options ): what is thrown, the builder
\* that was called and the edits made on the body
transpileMethod(format, source, opts) ==
  transpileModule(format, opts, getStandaloneModule(source, opts.strict))


(***************************************************************************)
(* The universal emitters of a bundle.  What they prepend and append to    *)
(* bundle.body as a whole is bundle.edits.                                 *)
(***************************************************************************)
entryModule(b) ==
  b.moduleLookup[b.entry]

\* bundle.externalModules.map( getName )
getNames(b) ==
  [i \in 1..Len(b.externalModules) |->
     str(b.externalModuleLookup[b.externalModules[i]].name)]

\* bundle.externalModules.filter( needsDefault )
RECURSIVE needingDefault(_, _)
needingDefault(b, i) ==
  IF i > Len(b.externalModules) THEN <<>>
  ELSE (IF b.externalModuleLookup[b.externalModules[i]].needsDefault
        THEN << [b.externalModuleLookup[b.externalModules[i]] EXCEPT
                   !.name = str(@)] >>
        ELSE <<>>)
       \o needingDefault(b, i + 1)

\* !hasImports && !hasExports
selfContained(b) ==
  b.externalModules = <<>> /\ entryModule(b).exports = <<>>

\* entry.identifierReplacements.default
defaultName(b) ==
  get(entryModule(b).identifierReplacements, default)

getExportBlock(b) ==
  <<"e", "x", "p", "o", "r", "t", "s", "[", "'", "d", "e", "f", "a", "u", "l", "t", "'", "]", " ", "=", " ">> \o str(defaultName(b)) \o <<";">>

\* The options the intro of a bundle is made from
introOptions(b, opts) ==
  [hasExports |-> entryModule(b).exports # <<>>,
   importPaths |-> b.externalModules,
   importNames |-> getNames(b),
   externalDefaults |-> needingDefault(b, 1),
   amdName |-> opts.amdName,
   absolutePaths |-> FALSE,
   name |-> opts.name]

defaultsMode_umd__umd(b, opts) ==
  IF requireName(opts) # "none"
  THEN [error |-> requireName(opts), edits |-> <<>>]
  ELSE [error |-> "none",
        edits |->
          (IF /\ ~selfContained(b)
              /\ defaultName(b) # undefined /\ defaultName(b) # <<>>
           THEN << append(<<"\n", "\n", "r", "e", "t", "u", "r", "n", " ">> \o defaultName(b) \o <<";">>) >>
           ELSE <<>>)
          \o << indent,
                prepend(IF selfContained(b)
                        THEN standaloneUmdIntro(opts, indentStr)
                        ELSE defaultUmdIntro(introOptions(b, opts), indentStr)),
                trimLines, append(<<"\n", "\n", "}", ")", ")", ";">>) >>]

builders_strictMode_umd__umd(b, opts) ==
  IF requireName(opts) # "none"
  THEN [error |-> requireName(opts), edits |-> <<>>]
  ELSE [error |-> "none",
        edits |->
          (IF /\ ~selfContained(b) /\ entryModule(b).exports # <<>>
              /\ entryModule(b).defaultExport # Null
           THEN << append(<<"\n", "\n">> \o getExportBlock(b)) >>
           ELSE <<>>)
          \o << indent,
                prepend(IF selfContained(b)
                        THEN standaloneUmdIntro(opts, indentStr)
                        ELSE strictUmdIntro(introOptions(b, opts), indentStr)),
                trimLines, append(<<"\n", "\n", "}", ")", ")", ";">>) >>]

\* A module of the bundle imports an external module with a declaration that
\* is neither a default nor a namespace import
namedExternalImports(b) ==
  \E i \in 1..Len(b.modules) :
    \E k \in 1..Len(b.moduleLookup[b.modules[i]].imports) :
      LET x == b.moduleLookup[b.modules[i]].imports[k]
      IN hasOwnProp(b.externalModuleLookup, x.id)
         /\ ~x.isDefault /\ ~x.isBatch

\* transpile( 'umd', options ), of a bundle
transpile(b, opts) ==
  IF ~opts.strict /\ hasNamedExports(entryModule(b))
  THEN notBuilt("Entry module can only have named exports in strict mode")
  ELSE IF ~opts.strict /\ namedExternalImports(b)
  THEN notBuilt("You can only have named external imports in strict mode")
  ELSE built("umd", opts,
             IF opts.strict THEN builders_strictMode_umd__umd(b, opts)
             ELSE defaultsMode_umd__umd(b, opts))


(***************************************************************************)
(* Emitting: esperanto.toAmd, toCjs and toUmd of a source, and toUmd of a  *)
(* bundle                                                                  *)
(***************************************************************************)
\* No call of esperanto.bundle was made
idle ==
  /\ pc = "idle"
  /\ tasks = {}
  /\ entryPath = undefined
  /\ modules = <<>>
  /\ moduleLookup = emptyObject
  /\ promiseByPath = {}
  /\ promises = emptyObject
  /\ externalModules = <<>>
  /\ externalModuleLookup = emptyObject
  /\ error = "none"
  /\ bundle = noBundle
  /\ run = 1
  /\ previous = noPrevious
  /\ output = noOutput

\* The statements of a source after its import
SourceBodies ==
  { <<>>,
    \* var x;
    << VariableDeclaration("var", << VariableDeclarator(<<"x">>, Null) >>) >>,
    \* export default 1;
    << ExportDefaultDeclaration(Literal(<<"1">>)) >>,
    \* export default function f () {}
    << ExportDefaultDeclaration(FunctionDeclaration(<<"f">>, <<>>, <<>>)) >>,
    \* export default function () {} var x;
    << ExportDefaultDeclaration(FunctionExpression(Null, <<>>, <<>>)),
       VariableDeclaration("var", << VariableDeclarator(<<"x">>, Null) >>) >>,
    \* export default 1; export default 1;
    << ExportDefaultDeclaration(Literal(<<"1">>)),
       ExportDefaultDeclaration(Literal(<<"1">>)) >>,
    \* export var x = 1; x = 1;
    << ExportDeclaration(VariableDeclaration("var",
         << VariableDeclarator(<<"x">>, Literal(<<"1">>)) >>)),
       assign(<<"x">>) >>,
    \* export default 1; export var x = 1;
    << ExportDefaultDeclaration(Literal(<<"1">>)),
       ExportDeclaration(VariableDeclaration("var",
         << VariableDeclarator(<<"x">>, Literal(<<"1">>)) >>)) >>,
    \* var v; export { v };
    << VariableDeclaration("var", << VariableDeclarator(<<"v">>, Null) >>),
       ExportSpecifiers(<< ExportSpecifier(<<"v">>, <<"v">>) >>) >>,
    \* export { w } from 'ext';
    << ExportFrom(<< ExportSpecifier(<<"w">>, <<"w">>) >>, <<"e", "x", "t">>) >>,
    \* d = 1;
    << assign(<<"d">>) >>,
    \* var exports; exports = 1;
    << VariableDeclaration("var", << VariableDeclarator(<<"e", "x", "p", "o", "r", "t", "s">>, Null) >>),
       assign(<<"e", "x", "p", "o", "r", "t", "s">>) >>,
    \* this.p = 1;
    << ExpressionStatement(AssignmentExpression(
         MemberExpression(ThisExpression, Identifier(<<"p">>), FALSE),
         Literal(<<"1">>))) >>,
    \* function g () { this.p = 1; }
    << FunctionDeclaration(<<"g">>, <<>>, << ExpressionStatement(AssignmentExpression(
         MemberExpression(ThisExpression, Identifier(<<"p">>), FALSE),
         Literal(<<"1">>))) >>) >>,
    \* var f = function () { this.p = 1; };
    << VariableDeclaration("var", << VariableDeclarator(<<"f">>,
         FunctionExpression(Null, <<>>, << ExpressionStatement(AssignmentExpression(
         MemberExpression(ThisExpression, Identifier(<<"p">>), FALSE),
         Literal(<<"1">>))) >>)) >>) >>,
    \* export var x = 1; var f = function () { var b = 2; }; x = 1;
    << ExportDeclaration(VariableDeclaration("var",
         << VariableDeclarator(<<"x">>, Literal(<<"1">>)) >>)),
       VariableDeclaration("var", << VariableDeclarator(<<"f">>,
         FunctionExpression(Null, <<>>,
           << VariableDeclaration("var",
                << VariableDeclarator(<<"b">>, Literal(<<"2">>)) >>) >>)) >>),
       assign(<<"x">>) >>,
    \* export var x = 1; var y = x++;
    << ExportDeclaration(VariableDeclaration("var",
         << VariableDeclarator(<<"x">>, Literal(<<"1">>)) >>)),
       VariableDeclaration("var", << VariableDeclarator(<<"y">>,
         UpdateExpression("++", Identifier(<<"x">>))) >>) >>,
    \* var x = 1; var y = x++; export { x as X };
    << VariableDeclaration("var", << VariableDeclarator(<<"x">>, Literal(<<"1">>)) >>),
       VariableDeclaration("var", << VariableDeclarator(<<"y">>,
         UpdateExpression("++", Identifier(<<"x">>))) >>),
       ExportSpecifiers(<< ExportSpecifier(<<"x">>, <<"X">>) >>) >> }

\* The sources toAmd, toCjs and toUmd are called with: nothing or one of the
\* import declarations, and then the statements of one body
Sources ==
  {Program(i \o m) : i \in {<<>>} \cup {<< d >> : d \in MainImports},
                     m \in SourceBodies}

\* options.name, options.amdName and options.absolutePaths
Names ==
  {undefined, <<"l", "i", "b">>}

AmdNames ==
  {undefined, <<"l", "i", "b", "/", "m", "a", "i", "n">>}

EmitOptions ==
  [strict : BOOLEAN, name : Names, amdName : AmdNames, absolutePaths : BOOLEAN]

Formats ==
  {"amd", "cjs", "umd"}

\* esperanto.toAmd( source, options ), toCjs and toUmd
Transpile ==
  /\ pc = "idle"
  /\ \E format \in Formats, source \in Sources, opts \in EmitOptions :
       output' = [call |-> "module", format |-> format, source |-> source,
                  options |-> opts]
                 @@ transpileMethod(format, source, opts)
  /\ pc' = "transpiled"
  /\ UNCHANGED << inputs, tasks, entryPath, modules, moduleLookup,
                  promiseByPath, promises, externalModules,
                  externalModuleLookup, error, bundle, run, previous >>

\* toUmd( options ) of the object esperanto.bundle resolved to, called once
ToUmd ==
  /\ pc = "built"
  /\ output = noOutput
  /\ \E opts \in {o \in EmitOptions : ~o.absolutePaths} :
       \E result \in {transpile(bundle, opts)} :
         /\ output' = [call |-> "bundle", format |-> "umd",
                       source |-> bundle.entry, options |-> opts] @@ result
         /\ bundle' = [bundle EXCEPT !.edits = @ \o result.edits]
  /\ UNCHANGED << inputs, pc, tasks, entryPath, modules, moduleLookup,
                  promiseByPath, promises, externalModules,
                  externalModuleLookup, error, run, previous >>

\* The options of concat: intro and outro are undefined when the key is
\* absent; indent names what options.indent is ("absent", "true", "false",
\* or a string of spaces)
ConcatOptions ==
  [intro : {undefined, <<"(", "f", "u", "n", "c", "t", "i", "o", "n", " ", "(", ")", " ", "{", "\n">>},
   outro : {undefined, <<"\n", "}", ")", "(", ")", ";">>},
   indent : {"absent", "true", "false", "spaces"}]

\* indent, as concat computes it
indentOf(opts) ==
  IF opts.indent \in {"absent", "true"} THEN indentStr
  ELSE IF opts.indent = "spaces" THEN <<" ", " ">>
  ELSE <<>>

\* concat without the test of the imports and the exports
concatAny(b, opts) ==
  [error |-> "none", builder |-> "concat",
   edits |-> << trimLines, [indent EXCEPT !.text = indentOf(opts)],
                prepend(opts.intro), append(opts.outro) >>]

\* concat( bundle, options ): what is thrown and the edits of bundle.body
builders_concat(b, opts) ==
  IF b.externalModules # <<>> \/ entryModule(b).exports # <<>>
  THEN [error |-> "bundle.concat() can only be used with bundles that have no imports/exports",
        builder |-> "concat", edits |-> <<>>]
  ELSE [error |-> "none", builder |-> "concat",
        edits |-> << trimLines,
                     [indent EXCEPT !.text = indentOf(opts)],
                     prepend(IF opts.intro # undefined THEN opts.intro
                             ELSE <<"(", "f", "u", "n", "c", "t", "i", "o", "n", " ", "(", ")", " ", "{", " ", "'", "u", "s", "e", " ", "s", "t", "r", "i", "c", "t", "'", ";", "\n", "\n">>),
                     append(IF opts.outro # undefined THEN opts.outro
                            ELSE <<"\n", "\n", "}", ")", "(", ")", ";">>) >>]

\* concat( options ) of the object esperanto.bundle resolved to, called once
Concat ==
  /\ pc = "built"
  /\ output = noOutput
  /\ \E opts \in ConcatOptions :
       \E result \in {builders_concat(bundle, opts)} :
         /\ output' = [call |-> "bundle", format |-> "concat",
                       source |-> bundle.entry, options |-> opts] @@ result
         /\ bundle' = [bundle EXCEPT !.edits = @ \o result.edits]
  /\ UNCHANGED << inputs, pc, tasks, entryPath, modules, moduleLookup,
                  promiseByPath, promises, externalModules,
                  externalModuleLookup, error, run, previous >>

NextEmit ==
  \/ Step
  \/ Transpile
  \/ ToUmd
  \/ Concat

\* What main.js holds after its import when a bundle is emitted
EntryBodies ==
  { <<>>,
    \* export default 1;
    << ExportDefaultDeclaration(Literal(<<"1">>)) >>,
    \* export var x = 1; x = 1;
    << ExportDeclaration(VariableDeclaration("var",
         << VariableDeclarator(<<"x">>, Literal(<<"1">>)) >>)),
       assign(<<"x">>) >>,
    \* this.p = 1;
    << ExpressionStatement(AssignmentExpression(
         MemberExpression(ThisExpression, Identifier(<<"p">>), FALSE),
         Literal(<<"1">>))) >>,
    \* function g () { this.p = 1; }
    << FunctionDeclaration(<<"g">>, <<>>, << ExpressionStatement(AssignmentExpression(
         MemberExpression(ThisExpression, Identifier(<<"p">>), FALSE),
         Literal(<<"1">>))) >>) >> }

\* Either esperanto.bundle is called on the files, or no bundle is asked
\* for and there are no files
InitEmit ==
  \/ /\ files \in {(mainJs :> Program(<< i >> \o m))
                    @@ (aJs :> Program(<< ExportDefaultDeclaration(Literal(<<"1">>)),
                                          ExportDeclaration(VariableDeclaration("var",
                                            << VariableDeclarator(<<"v">>, Literal(<<"9">>)) >>)) >>)) :
                     i \in MainImports, m \in EntryBodies}
     /\ options = [entry |-> <<"m", "a", "i", "n">>, skip |-> <<>>, names |-> emptyObject]
     /\ started(1, noPrevious)
  \/ /\ files = emptyObject
     /\ options = [entry |-> <<>>, skip |-> <<>>, names |-> emptyObject]
     /\ idle

SpecEmit ==
  InitEmit /\ [][NextEmit]_vars


(***************************************************************************)
(* Properties of emitting                                                  *)
(***************************************************************************)
\* The source has an import declaration with a named specifier
namedImportIn(source) ==
  \E i \in 1..Len(source.body) :
    /\ source.body[i].type = "ImportDeclaration"
    /\ \E j \in 1..Len(source.body[i].specifiers) :
         source.body[i].specifiers[j].type = "ImportSpecifier"

\* The source has an export that is not the default export
namedExportIn(source) ==
  \E i \in 1..Len(source.body) : source.body[i].type = "ExportNamedDeclaration"

\* The export declarations of the source
exportsIn(source) ==
  {i \in 1..Len(source.body) :
     source.body[i].type \in {"ExportNamedDeclaration", "ExportDefaultDeclaration"}}

\* C9: without the option strict, toAmd, toCjs and toUmd of a source that has
\* an import declaration with named specifiers, or an export that is not the
\* default export, throw; a source they accept has at most one export
\* declaration, and it is the default export.
C9_DefaultsModeRejectsNamed ==
  (output.call = "module" /\ ~output.options.strict) =>
    /\ (namedImportIn(output.source) \/ namedExportIn(output.source))
         => output.error # "none"
    /\ output.error = "none" =>
         /\ Cardinality(exportsIn(output.source)) <= 1
         /\ \A i \in exportsIn(output.source) :
              output.source.body[i].type = "ExportDefaultDeclaration"

\* toCjs was called without strict on a source whose only named declaration
\* is an export, and threw for it
C9_Witness ==
  /\ output.call = "module" /\ output.format = "cjs"
  /\ ~output.options.strict
  /\ namedExportIn(output.source) /\ ~namedImportIn(output.source)
  /\ output.error = "You must be in strict mode"
  /\ output.builder = "none"

\* C10: every emitter of the universal format, of a single file or of a
\* bundle, in strict mode or not, called with no options.name, throws
\* MISSING_NAME and has made no edit of the body by then.
C10_UmdRequiresName ==
  (/\ output.call # "none" /\ output.format = "umd"
   /\ output.builder # "none"
   /\ output.options.name = undefined) =>
    /\ output.error = "MISSING_NAME"
    /\ output.edits = <<>>
    /\ output.call = "bundle" => bundle.edits = <<>>

\* The strict emitter of a bundle that has an external import and an export
\* was called with no name
C10_Witness ==
  /\ output.call = "bundle" /\ output.builder = "strictMode"
  /\ output.options.name = undefined
  /\ bundle.externalModules # <<>>
  /\ bundle.moduleLookup[bundle.entry].exports # <<>>
  /\ output.error = "MISSING_NAME"

OtherPool(path) ==
  IF path = aJs THEN {<<".", "/", "b">>, <<"x">>} ELSE {<<"x">>, <<"y">>}

InitRead ==
  /\ files \in {(mainJs :> programOf(m)) @@ (aJs :> a) @@ (bJs :> b) :
                  m \in Imports(mainJs),
                  a \in {gone} \cup {programOf(p) : p \in SeqsUpTo(OtherPool(aJs), 1)},
                  b \in {gone} \cup {programOf(p) : p \in SeqsUpTo(OtherPool(bJs), MaxImports)}}
  /\ options = [entry |-> <<"m", "a", "i", "n">>, skip |-> <<>>, names |-> emptyObject]
  /\ started(1, noPrevious)

SpecRead ==
  InitRead /\ [][Next]_vars

\* The ids the modules that were read import
importedIds ==
  UNION {{moduleLookup[id].imports[k].id : k \in 1..Len(moduleLookup[id].imports)} :
           id \in DOMAIN moduleLookup}

\* No file of the id can be read: neither path is found, or the path that
\* is found is gone by the time it is read
unreadable(id) ==
  \/ \A try \in 1..2 : tryPaths(id)[try] \notin DOMAIN files
  \/ \E try \in 1..2 :
       /\ tryPaths(id)[try] \in DOMAIN files
       /\ \A before \in 1..(try - 1) : tryPaths(id)[before] \notin DOMAIN files
       /\ files[tryPaths(id)[try]] = gone

\* C12: once nothing is in flight, the bundle has not failed, and every
\* imported id whose file can be neither found nor read is an external module
\* exactly once.
C12_MissingModulesAreExternal ==
  (tasks = {} /\ pc # "resolving") =>
    /\ pc # "failed"
    /\ \A id \in importedIds :
         unreadable(id) =>
           Cardinality({i \in 1..Len(externalModules) : externalModules[i] = id}) = 1

(***************************************************************************)
(* Properties of the rewriting of a body                                   *)
(***************************************************************************)
\* The module has no import, no export and no this
plain(ast) ==
  \A p \in pathsOf(ast, root) :
    nodeAt(ast, p).type
      \notin {"ImportDeclaration", "ExportNamedDeclaration",
              "ExportDefaultDeclaration", "ThisExpression"}

\* The edits that change the text between the first and the last character
\* of a body
inner(edits) ==
  {i \in 1..Len(edits) : edits[i].op \in {"replace", "insert", "remove"}}

\* C13: a module with no import, no export and no top-level this is rewritten
\* to itself, by the strict emitters of a single file and in a bundle: no
\* identifier is renamed, and nothing is inserted or removed.
C13_PlainModuleIsUnchanged ==
  /\ (/\ output.call = "module" /\ output.options.strict
      /\ output.error = "none" /\ plain(output.source))
       => inner(output.edits) = {}
  /\ pc = "built" =>
       \A i \in 1..Len(bundle.body) :
         plain(bundle.moduleLookup[bundle.body[i].id].ast)
           => inner(bundle.body[i].edits) = {}


\* The member expressions of this.p in the source, outside every function
\* (atTop) or inside a function declaration or a function expression
thisMembers(ast, atTop) ==
  {p \in pathsOf(ast, root) :
     /\ nodeAt(ast, p).type = "MemberExpression"
     /\ nodeAt(ast, p).object.type = "ThisExpression"
     /\ atTop = (\A n \in 0..Len(p) :
                   nodeAt(ast, SubSeq(p, 1, n)).type
                     \notin {"FunctionDeclaration", "FunctionExpression"})}

\* C14: a module with this.p outside every function is rejected, as one file
\* in strict mode and in defaults-only mode, and in a bundle; the same
\* expression inside a function declaration or expression is not an error.
C14_TopLevelThisMemberIsRejected ==
  /\ output.call = "module" =>
       /\ thisMembers(output.source, TRUE) # {} => output.error # "none"
       /\ thisMembers(output.source, TRUE) = {}
            => output.error # "this at the top level is undefined"
  /\ (pc \in {"built", "failed"} /\ mainJs \in DOMAIN files) =>
       /\ thisMembers(files[mainJs], TRUE) # {} => pc = "failed"
       /\ thisMembers(files[mainJs], TRUE) = {}
            => error # "this at the top level is undefined"


(***************************************************************************)
(* Resolving import paths: the functions are applied to paths of up to     *)
(* MaxSegments segments                                                    *)
(***************************************************************************)
MaxSegments ==
  3

Segments ==
  {<<".">>, <<".", ".">>, <<"x">>, <<"y", ".", "j", "s">>}

RECURSIVE segmentLists(_)
segmentLists(n) ==
  IF n = 0 THEN {<<>>}
  ELSE {<<>>} \cup {<< s >> \o l : s \in Segments, l \in segmentLists(n - 1)}

\* Paths written with '/' and with '\', and two module names
ImportPaths ==
  {join(l, sep) : l \in segmentLists(MaxSegments), sep \in {<<"/">>, <<"\\">>}}
    \cup {<<"e", "x", "t">>, <<"e", "x", "t", ".", "j", "s">>}

ImporterPaths ==
  {<<"m", "a", "i", "n", ".", "j", "s">>, <<"a", "/", "b", ".", "j", "s">>, <<"a", "/", "b", "/", "c", ".", "j", "s">>, <<"a", "\\", "b", "\\", "c", ".", "j", "s">>}

\* resolve( importPath, importerPath ) of utils/resolve.js
Resolve ==
  /\ pc = "idle"
  /\ \E importPath \in ImportPaths, importerPath \in ImporterPaths :
       output' = [call |-> "resolve", importPath |-> importPath,
                  importerPath |-> importerPath,
                  resolved |-> resolve(importPath, importerPath)]
  /\ pc' = "resolved"
  /\ UNCHANGED << inputs, tasks, entryPath, modules, moduleLookup,
                  promiseByPath, promises, externalModules,
                  externalModuleLookup, error, bundle, run, previous >>

\* resolveId( importPath, importerPath ) of the distributed file
ResolveId ==
  /\ pc = "idle"
  /\ \E importPath \in ImportPaths, importerPath \in ImporterPaths :
       output' = [call |-> "resolveId", importPath |-> importPath,
                  importerPath |-> importerPath,
                  resolved |-> resolveId(importPath, importerPath)]
  /\ pc' = "resolved"
  /\ UNCHANGED << inputs, tasks, entryPath, modules, moduleLookup,
                  promiseByPath, promises, externalModules,
                  externalModuleLookup, error, bundle, run, previous >>

NextResolve ==
  Resolve \/ ResolveId

InitResolve ==
  /\ files = emptyObject
  /\ options = [entry |-> <<>>, skip |-> <<>>, names |-> emptyObject]
  /\ idle

SpecResolve ==
  InitResolve /\ [][NextResolve]_vars

\* The leading '.' and '..' segments of the parts of a path
RECURSIVE leading(_)
leading(parts) ==
  IF parts # <<>> /\ parts[1] \in {<<".">>, <<".", ".">>}
  THEN << parts[1] >> \o leading(Tail(parts))
  ELSE <<>>

\* What the result is to be: the directory of the importer, less one
\* component for each leading '..', and the segments after the leading ones
resolution(importPath, importerPath) ==
  IF importPath = <<>> \/ importPath[1] # "."
  THEN stripJs(importPath)
  ELSE LET parts == splitFrom(importPath, 1, <<>>, {"/", "\\"})
           dots == leading(parts)
           ups == Cardinality({i \in 1..Len(dots) : dots[i] = <<".", ".">>})
           dir == pop(splitFrom(importerPath, 1, <<>>, {"/", "\\"}))
       IN stripJs(join(SubSeq(dir, 1, Len(dir) - ups)
                         \o SubSeq(parts, Len(dots) + 1, Len(parts)), <<"/">>))

\* C15: a path that does not start with '.' resolves to itself less a
\* trailing '.js'; any other resolves to the directory of the importer less
\* one component for each leading '..', then the segments after the leading
\* '.' and '..' ones, joined by '/', less a trailing '.js', whatever the
\* order of the leading segments and with '/' or '\' as the separator.
C15_ResolveCollapsesLeadingSegments ==
  output.call \in {"resolve", "resolveId"} =>
    output.resolved = resolution(output.importPath, output.importerPath)


(***************************************************************************)
(* Chains: main.js imports and re-exports from b/index.js, which it names  *)
(* './b' and './b/index'                                                   *)
(***************************************************************************)
ChainDeclarations ==
  { bareImport(<<".", "/", "b">>),
    ImportDeclaration(<< ImportSpecifier(<<"v">>, <<"v">>) >>, <<".", "/", "b">>),
    ImportDeclaration(<< ImportSpecifier(<<"v">>, <<"v">>) >>, <<"e", "x", "t">>),
    ExportFrom(<< ExportSpecifier(<<"v">>, <<"v">>) >>, <<".", "/", "b">>),
    ExportFrom(<< ExportSpecifier(<<"v">>, <<"v">>) >>, <<".", "/", "b", "/", "i", "n", "d", "e", "x">>),
    ExportSpecifiers(<< ExportSpecifier(<<"v">>, <<"v">>) >>),
    ImportDeclaration(<< ImportSpecifier(<<"v">>, <<"w">>) >>, <<".", "/", "b">>),
    ExportSpecifiers(<< ExportSpecifier(<<"w">>, <<"w">>) >>) }

ChainBodies ==
  { \* export var v = 9;
    << ExportDeclaration(VariableDeclaration("var",
         << VariableDeclarator(<<"v">>, Literal(<<"9">>)) >>)) >>,
    \* var x;
    << VariableDeclaration("var", << VariableDeclarator(<<"x">>, Null) >>) >>,
    \* export var v = 9; var y = v++;
    << ExportDeclaration(VariableDeclaration("var",
         << VariableDeclarator(<<"v">>, Literal(<<"9">>)) >>)),
       VariableDeclaration("var", << VariableDeclarator(<<"y">>,
         UpdateExpression("++", Identifier(<<"v">>))) >>) >> }

InitChains ==
  /\ files \in {(mainJs :> Program(m)) @@ (bJs :> Program(b)) :
                  m \in SeqsUpTo(ChainDeclarations, MaxImports), b \in ChainBodies}
  /\ options = [entry |-> <<"m", "a", "i", "n">>, skip |-> <<>>, names |-> emptyObject]
  /\ started(1, noPrevious)

SpecChains ==
  InitChains /\ [][Next]_vars

\* The module and the name a chain leads to
chainTarget(hash) ==
  splitFrom(hash, 1, <<>>, {"@"})

\* C16: in a bundle that was combined, every chain leads to a name of the
\* export set of a local module, or to an external module.
C16_ChainsLeadToModules ==
  pc = "built" =>
    \A hash \in DOMAIN bundle.chains :
      \E n \in {chainTarget(bundle.chains[hash])[1]},
         y \in {chainTarget(bundle.chains[hash])[2]} :
        \/ /\ hasOwnProp(bundle.moduleLookup, n)
           /\ y \in bundle.moduleLookup[n].doesExport
        \/ hasOwnProp(bundle.externalModuleLookup, n)


(***************************************************************************)
(* Properties of loading: cycles                                           *)
(***************************************************************************)
\* The place of an element in a list that holds it
indexIn(list, x) ==
  CHOOSE i \in 1..Len(list) : list[i] = x

\* Two different local modules that import each other, directly or through
\* other local modules
onACycle(lookup, m, n) ==
  /\ m # n
  /\ reaches(lookup, m, n, Cardinality(DOMAIN lookup))
  /\ reaches(lookup, n, m, Cardinality(DOMAIN lookup))

\* C17: the modules of a cycle of local imports are in bundle.modules in the
\* order the loader pushed them onto modules.
C17_CyclesKeepLoadingOrder ==
  pc = "built" =>
    \A m, n \in DOMAIN bundle.moduleLookup :
      (onACycle(bundle.moduleLookup, m, n) /\ indexIn(modules, m) < indexIn(modules, n))
        => indexIn(bundle.modules, m) < indexIn(bundle.modules, n)


\* The tasks of a kind that a step adds
added(kind) ==
  {t \in tasks' \ tasks : t.kind = kind}

\* Within one call a path once in promiseByPath stays there, and a read is
\* started only for a path that was not there, one read for a path
readsOnce ==
  run' = run =>
    /\ promiseByPath \subseteq promiseByPath'
    /\ \A t \in added("read") :
         /\ t.path \notin promiseByPath
         /\ t.path \in promiseByPath'
         /\ \A u \in added("read") : u.path = t.path => u = t

\* No id and no path is twice in modules
registeredOnce ==
  \A i, j \in 1..Len(modules) :
    i # j => /\ modules[i] # modules[j]
             /\ moduleLookup[modules[i]].path # moduleLookup[modules[j]].path

\* C18: while a bundle is loaded each path is read at most once and each
\* module is pushed onto modules at most once, however many modules import
\* it, with cycles of imports, in whatever order the stats and reads complete.
C18_EachModuleIsReadOnce ==
  []registeredOnce /\ [][readsOnce]_vars

\* main, a and b are loaded; a and b import each other and main imports both
C18_Witness ==
  /\ pc = "built"
  /\ Len(modules) = 3
  /\ onACycle(moduleLookup, <<"a">>, <<"b">>)
  /\ {<<"a">>, <<"b">>} \subseteq localImports(moduleLookup, <<"m", "a", "i", "n">>)


(***************************************************************************)
(* Properties of the writes to exported names                              *)
(***************************************************************************)
\* The pairs << x, X >> of a source: x is exported as X by a declaration or
\* by a specifier of the module itself
exportedAs(source) ==
  UNION {LET s == source.body[i]
         IN IF s.type # "ExportNamedDeclaration" \/ s.source # Null THEN {}
            ELSE IF s.declaration = Null
            THEN {<< s.specifiers[j].local.name, s.specifiers[j].exported.name >> :
                    j \in 1..Len(s.specifiers)}
            ELSE IF s.declaration.type = "VariableDeclaration"
            THEN {<< s.declaration.declarations[1].id.name,
                     s.declaration.declarations[1].id.name >>}
            ELSE {<< s.declaration.id.name, s.declaration.id.name >>} :
         i \in 1..Len(source.body)}

\* The scope a path is in: the longest of its prefixes that owns a scope
scopeAt(scopes, path) ==
  CHOOSE s \in DOMAIN scopes :
    /\ Len(s) <= Len(path) /\ SubSeq(path, 1, Len(s)) = s
    /\ \A o \in DOMAIN scopes :
         (Len(o) <= Len(path) /\ SubSeq(path, 1, Len(o)) = o) => Len(o) <= Len(s)

\* The assignments and updates of the source to a name x of the pairs
\* << x, X >> that no scope below the top level declares: [at, name, exportAs]
exportWrites(source, pairs) ==
  {w \in [at : pathsOf(source, root), name : {x[1] : x \in pairs},
          exportAs : {x[2] : x \in pairs}] :
     /\ << w.name, w.exportAs >> \in pairs
     /\ nodeAt(source, w.at).type \in {"AssignmentExpression", "UpdateExpression"}
     /\ assigneeOf(nodeAt(source, w.at)).type = "Identifier"
     /\ assigneeOf(nodeAt(source, w.at)).name = w.name
     /\ ~contains(annotateAst(source).scopes,
                  scopeAt(annotateAst(source).scopes, w.at), w.name, TRUE)}

\* The pairs << x, X >> of a module of a bundle: bundle.exports has the
\* module write x as exports.X
plannedAs(b, id) ==
  IF hasOwnProp(b.exports, id)
  THEN {<< x, b.exports[id].value[x] >> : x \in DOMAIN b.exports[id].value}
  ELSE {}

\* The variable declarations a path is inside of
declarationsAround(source, path) ==
  {SubSeq(path, 1, n) : n \in {k \in 0..(Len(path) - 1) :
     nodeAt(source, SubSeq(path, 1, k)).type = "VariableDeclaration"}}

\* The innermost of them
enclosing(source, path) ==
  CHOOSE d \in declarationsAround(source, path) :
    \A o \in declarationsAround(source, path) : Len(o) <= Len(d)

\* The write is mirrored in the edits: at the assignment itself outside a
\* variable declaration, after the variable declaration it is in otherwise
mirrored(source, edits, w) ==
  \E i \in 1..Len(edits) :
    /\ occursIn(<<"e", "x", "p", "o", "r", "t", "s", ".">>, edits[i].text)
    /\ IF declarationsAround(source, w.at) = {}
       THEN /\ edits[i].op = "replace"
            /\ edits[i].from.at = w.at
            /\ occursIn(<<"e", "x", "p", "o", "r", "t", "s", ".">> \o w.exportAs \o <<" ", "=", " ">>, edits[i].text)
       ELSE /\ edits[i].op = "insert"
            /\ edits[i].from = end(enclosing(source, w.at))

\* C19: every assignment and update to an exported name that nothing shadows
\* is mirrored by a write to exports: at the assignment itself outside a
\* variable declaration, after the variable declaration it is in otherwise;
\* also after a variable declaration that holds another variable declaration.
C19_ExportWritesAreMirrored ==
  /\ (output.call = "module" /\ output.options.strict /\ output.error = "none") =>
       \A w \in exportWrites(output.source, exportedAs(output.source)) :
         mirrored(output.source, output.edits, w)
  /\ pc = "built" =>
       \A k \in 1..Len(bundle.body) :
         \A w \in exportWrites(bundle.moduleLookup[bundle.body[k].id].ast,
                               plannedAs(bundle, bundle.body[k].id)) :
           mirrored(bundle.moduleLookup[bundle.body[k].id].ast, bundle.body[k].edits, w)

\* Nothing is inserted at the update, which is inside a variable declaration,
\* and the edits after the declaration hold exports.X = x; x being written
\* as one of locals
captured(source, edits, w, locals) ==
  /\ \A i \in 1..Len(edits) :
       edits[i].from.at = w.at
         => ~occursIn(<<"e", "x", "p", "o", "r", "t", "s", ".">>, edits[i].text)
  /\ \E i \in 1..Len(edits) :
       /\ edits[i].op = "insert"
       /\ edits[i].from = end(enclosing(source, w.at))
       /\ \E x \in locals :
            occursIn(<<" ", "e", "x", "p", "o", "r", "t", "s", ".">> \o w.exportAs \o <<" ", "=", " ">> \o x \o <<";">>,
                     edits[i].text)

\* C20: nothing is inserted inside a variable declaration for the updates of
\* exported names in its initializers; after the declaration comes one
\* statement for each, exports.X = x, X being the name x is exported as,
\* also when X is not x.
C20_CapturedUpdatesFollowTheDeclaration ==
  /\ (output.call = "module" /\ output.options.strict /\ output.error = "none") =>
       \A w \in exportWrites(output.source, exportedAs(output.source)) :
         declarationsAround(output.source, w.at) # {}
           => captured(output.source, output.edits, w, {w.name})
  /\ pc = "built" =>
       \A k \in 1..Len(bundle.body) :
         \A w \in exportWrites(bundle.moduleLookup[bundle.body[k].id].ast,
                               plannedAs(bundle, bundle.body[k].id)) :
           declarationsAround(bundle.moduleLookup[bundle.body[k].id].ast, w.at) # {}
             => captured(bundle.moduleLookup[bundle.body[k].id].ast,
                         bundle.body[k].edits, w,
                         {w.name, get(bundle.moduleLookup[bundle.body[k].id].identifierReplacements, w.name)})


(***************************************************************************)
(* Shadowing: main.js imports v of a.js as d and refers to d in and around  *)
(* functions that declare d                                                *)
(***************************************************************************)
\* d;
refer(name) ==
  ExpressionStatement(Identifier(name))

ShadowBodies ==
  { \* d;
    << refer(<<"d">>) >>,
    \* function g ( d ) { d; }
    << FunctionDeclaration(<<"g">>, << <<"d">> >>, << refer(<<"d">>) >>) >>,
    \* function g () { var d; d; }
    << FunctionDeclaration(<<"g">>, <<>>,
         << VariableDeclaration("var", << VariableDeclarator(<<"d">>, Null) >>),
            refer(<<"d">>) >>) >>,
    \* function g () { d; }
    << FunctionDeclaration(<<"g">>, <<>>, << refer(<<"d">>) >>) >>,
    \* function g () { function d () {} d; }
    << FunctionDeclaration(<<"g">>, <<>>,
         << FunctionDeclaration(<<"d">>, <<>>, <<>>), refer(<<"d">>) >>) >>,
    \* function g () { class d {} d; }
    << FunctionDeclaration(<<"g">>, <<>>,
         << ClassDeclaration(<<"d">>), refer(<<"d">>) >>) >>,
    \* function g () { function h ( d ) {} d; }
    << FunctionDeclaration(<<"g">>, <<>>,
         << FunctionDeclaration(<<"h">>, << <<"d">> >>, <<>>), refer(<<"d">>) >>) >>,
    \* function g ( d ) { function h () { d; } }
    << FunctionDeclaration(<<"g">>, << <<"d">> >>,
         << FunctionDeclaration(<<"h">>, <<>>, << refer(<<"d">>) >>) >>) >>,
    \* var f = function () { d; };
    << VariableDeclaration("var", << VariableDeclarator(<<"f">>,
         FunctionExpression(Null, <<>>, << refer(<<"d">>) >>)) >>) >>,
    \* var f = function ( d ) { d; }; d;
    << VariableDeclaration("var", << VariableDeclarator(<<"f">>,
         FunctionExpression(Null, << <<"d">> >>, << refer(<<"d">>) >>)) >>),
       refer(<<"d">>) >>,
    \* function g () { var f = function d () {}; d; }
    << FunctionDeclaration(<<"g">>, <<>>,
         << VariableDeclaration("var", << VariableDeclarator(<<"f">>,
              FunctionExpression(Identifier(<<"d">>), <<>>, <<>>)) >>),
            refer(<<"d">>) >>) >> }

\* What a.js exports
ShadowExports ==
  { \* export var v = 9;
    << ExportDeclaration(VariableDeclaration("var",
         << VariableDeclarator(<<"v">>, Literal(<<"9">>)) >>)) >>,
    \* export var v = 9; export default 1;
    << ExportDeclaration(VariableDeclaration("var",
         << VariableDeclarator(<<"v">>, Literal(<<"9">>)) >>)),
       ExportDefaultDeclaration(Literal(<<"1">>)) >> }

\* main.js: import { v as d } from './a'; and one of the bodies
InitShadow ==
  /\ files \in {(mainJs :> Program(<< ImportDeclaration(<< ImportSpecifier(<<"v">>, <<"d">>) >>, <<".", "/", "a">>) >> \o m))
                  @@ (aJs :> Program(a)) :
                  m \in ShadowBodies, a \in ShadowExports}
  /\ options = [entry |-> <<"m", "a", "i", "n">>, skip |-> <<>>, names |-> emptyObject]
  /\ started(1, noPrevious)

SpecShadow ==
  InitShadow /\ [][Next]_vars

isFunction(node) ==
  node.type \in {"FunctionDeclaration", "FunctionExpression", "ArrowFunctionExpression"}

\* The functions a path is inside of
functionsAround(ast, path) ==
  {SubSeq(path, 1, n) : n \in {k \in 0..(Len(path) - 1) :
     isFunction(nodeAt(ast, SubSeq(path, 1, k)))}}

\* The function at path f declares the name: it is a parameter, or a var, a
\* function or a class declared in its body and in no function inside it
declares(ast, f, name) ==
  \/ \E i \in 1..Len(nodeAt(ast, f).params) : nodeAt(ast, f).params[i].name = name
  \/ \E q \in pathsOf(ast, root) :
       /\ Len(q) > Len(f) /\ SubSeq(q, 1, Len(f)) = f
       /\ functionsAround(ast, q) \subseteq functionsAround(ast, f) \cup {f}
       /\ \/ /\ nodeAt(ast, q).type = "VariableDeclaration"
             /\ nodeAt(ast, q).kind = "var"
             /\ \E i \in 1..Len(nodeAt(ast, q).declarations) :
                  nodeAt(ast, q).declarations[i].id.name = name
          \/ /\ nodeAt(ast, q).type \in {"FunctionDeclaration", "ClassDeclaration"}
             /\ nodeAt(ast, q).id.name = name

\* The statements that are a reference to a name: the paths of the names
references(ast) ==
  {p \in pathsOf(ast, root) :
     /\ p # root
     /\ nodeAt(ast, p).type = "Identifier"
     /\ nodeAt(ast, SubSeq(p, 1, Len(p) - 1)).type = "ExpressionStatement"}

\* The edits replace the name at the path by the text
rewrittenTo(edits, path, text) ==
  \E i \in 1..Len(edits) :
    /\ edits[i].op = "replace"
    /\ edits[i].from = start(path) /\ edits[i].to = end(path)
    /\ edits[i].text = text

\* C21: a reference to a name whose replacement is another name is rewritten
\* if and only if no function around it declares the name as a parameter, a
\* var, a function or a class.
C21_ShadowedNamesAreKept ==
  pc = "built" =>
    \A k \in 1..Len(bundle.body) :
      \E mod \in {bundle.moduleLookup[bundle.body[k].id]} :
        \A p \in references(mod.ast) :
          \E r \in {get(mod.identifierReplacements, nodeAt(mod.ast, p).name)} :
            (r # undefined /\ r # nodeAt(mod.ast, p).name) =>
              (rewrittenTo(bundle.body[k].edits, p, r)
                 <=> \A f \in functionsAround(mod.ast, p) :
                       ~declares(mod.ast, f, nodeAt(mod.ast, p).name))


(***************************************************************************)
(* Lexical declarations: main.js imports v of a.js as d and declares d     *)
(* with let and const in blocks                                            *)
(***************************************************************************)
\* let name;
letDeclaration(name) ==
  VariableDeclaration("let", << VariableDeclarator(name, Null) >>)

LexicalBodies ==
  { \* { let d; d; }
    << BlockStatement(<< letDeclaration(<<"d">>), refer(<<"d">>) >>) >>,
    \* { const d = 1; d; }
    << BlockStatement(<< VariableDeclaration("const",
                           << VariableDeclarator(<<"d">>, Literal(<<"1">>)) >>),
                         refer(<<"d">>) >>) >>,
    \* function g () { { let d; d; } }
    << FunctionDeclaration(<<"g">>, <<>>,
         << BlockStatement(<< letDeclaration(<<"d">>), refer(<<"d">>) >>) >>) >>,
    \* function g () { { const d = 1; d; } }
    << FunctionDeclaration(<<"g">>, <<>>,
         << BlockStatement(<< VariableDeclaration("const",
                                << VariableDeclarator(<<"d">>, Literal(<<"1">>)) >>),
                              refer(<<"d">>) >>) >>) >>,
    \* { let d; d = 1; }
    << BlockStatement(<< letDeclaration(<<"d">>), assign(<<"d">>) >>) >>,
    \* function g () { let d; d = 1; }
    << FunctionDeclaration(<<"g">>, <<>>, << letDeclaration(<<"d">>), assign(<<"d">>) >>) >>,
    \* export var x = 1; { let x; x = 1; }
    << ExportDeclaration(VariableDeclaration("var",
         << VariableDeclarator(<<"x">>, Literal(<<"1">>)) >>)),
       BlockStatement(<< letDeclaration(<<"x">>), assign(<<"x">>) >>) >>,
    \* { let y; y; } d;
    << BlockStatement(<< letDeclaration(<<"y">>), refer(<<"y">>) >>), refer(<<"d">>) >> }

InitLexical ==
  /\ files \in {(mainJs :> Program(<< ImportDeclaration(<< ImportSpecifier(<<"v">>, <<"d">>) >>, <<".", "/", "a">>) >> \o m))
                  @@ (aJs :> Program(a)) :
                  m \in LexicalBodies, a \in ShadowExports}
  /\ options = [entry |-> <<"m", "a", "i", "n">>, skip |-> <<>>, names |-> emptyObject]
  /\ started(1, noPrevious)

SpecLexical ==
  InitLexical /\ [][Next]_vars

\* The blocks around a path that declare the name with let or const, in a
\* statement of their own
blocksDeclaring(ast, path, name) ==
  {b \in {SubSeq(path, 1, n) : n \in 0..(Len(path) - 1)} :
     /\ nodeAt(ast, b).type = "BlockStatement"
     /\ \E i \in 1..Len(nodeAt(ast, b).body) :
          /\ nodeAt(ast, b).body[i].type = "VariableDeclaration"
          /\ nodeAt(ast, b).body[i].kind \in {"let", "const"}
          /\ \E j \in 1..Len(nodeAt(ast, b).body[i].declarations) :
               nodeAt(ast, b).body[i].declarations[j].id.name = name}

\* The names used in expressions, under such a block: references, and the
\* names assigned to
shadowedUses(ast) ==
  {p \in pathsOf(ast, root) :
     /\ p # root
     /\ nodeAt(ast, p).type = "Identifier"
     /\ nodeAt(ast, SubSeq(p, 1, Len(p) - 1)).type
          \in {"ExpressionStatement", "AssignmentExpression", "UpdateExpression"}
     /\ blocksDeclaring(ast, p, nodeAt(ast, p).name) # {}}

\* C22: a name declared with let or const in a block is in the names of the
\* scope of that block, and it shadows the import or the export of that name:
\* loading does not fail for an assignment to it, and in the built bundle no
\* edit is made at a use of it nor at an assignment to it.
C22_LexicalNamesShadow ==
  /\ (pc = "failed" /\ mainJs \in DOMAIN files
        /\ \A p \in pathsOf(files[mainJs], root) :
             assigneeOf(nodeAt(files[mainJs], p)) # Null
               => Append(p, 1) \in shadowedUses(files[mainJs]))
       => error # bindingMessage
  /\ pc = "built" =>
       \A k \in 1..Len(bundle.body) :
         \E mod \in {bundle.moduleLookup[bundle.body[k].id]} :
           \A p \in shadowedUses(mod.ast) :
             /\ \A b \in blocksDeclaring(mod.ast, p, nodeAt(mod.ast, p).name) :
                  includes(mod.ast_.blockScopes[b].names, nodeAt(mod.ast, p).name)
             /\ \A i \in 1..Len(bundle.body[k].edits) :
                  bundle.body[k].edits[i].from.at
                    \notin {p, SubSeq(p, 1, Len(p) - 1)}


(***************************************************************************)
(* External modules: main.js imports from ext, which is no file, and from  *)
(* b.js, which exports names of ext again                                  *)
(***************************************************************************)
ExternalImports ==
  { \* import { v } from 'ext';
    ImportDeclaration(<< ImportSpecifier(<<"v">>, <<"v">>) >>, <<"e", "x", "t">>),
    \* import d from 'ext';
    ImportDeclaration(<< ImportDefaultSpecifier(<<"d">>) >>, <<"e", "x", "t">>),
    \* import { v as w } from './b';
    ImportDeclaration(<< ImportSpecifier(<<"v">>, <<"w">>) >>, <<".", "/", "b">>),
    \* import { v } from './b';
    ImportDeclaration(<< ImportSpecifier(<<"v">>, <<"v">>) >>, <<".", "/", "b">>),
    \* import e from './b';
    ImportDeclaration(<< ImportDefaultSpecifier(<<"e">>) >>, <<".", "/", "b">>) }

ExternalExports ==
  { \* export { v } from 'ext';
    << ExportFrom(<< ExportSpecifier(<<"v">>, <<"v">>) >>, <<"e", "x", "t">>) >>,
    \* import { v } from 'ext'; export { v };
    << ImportDeclaration(<< ImportSpecifier(<<"v">>, <<"v">>) >>, <<"e", "x", "t">>),
       ExportSpecifiers(<< ExportSpecifier(<<"v">>, <<"v">>) >>) >>,
    \* export { default } from 'ext';
    << ExportFrom(<< ExportSpecifier(<<"d", "e", "f", "a", "u", "l", "t">>, <<"d", "e", "f", "a", "u", "l", "t">>) >>, <<"e", "x", "t">>) >>,
    \* export var v = 9; export default 1;
    << ExportDeclaration(VariableDeclaration("var",
         << VariableDeclarator(<<"v">>, Literal(<<"9">>)) >>)),
       ExportDefaultDeclaration(Literal(<<"1">>)) >> }

InitExternal ==
  /\ files \in {(mainJs :> Program(m)) @@ (bJs :> Program(b)) :
                  m \in SeqsUpTo(ExternalImports, MaxImports), b \in ExternalExports}
  /\ options = [entry |-> <<"m", "a", "i", "n">>, skip |-> <<>>, names |-> emptyObject]
  /\ started(1, noPrevious)

SpecExternal ==
  InitExternal /\ [][Next]_vars

\* Where the chains of the bundle lead from a name of a module: << id, name >>
originIn(b, id, name) ==
  chainTarget(followChain(b.chains, str(id) \o atSign \o name, {}).hash)

\* What a specifier that leads to a name of an external module is to be
\* replaced by
externalName(b, id, name) ==
  IF name # default THEN b.externalModuleLookup[id].name \o <<".">> \o name
  ELSE IF b.externalModuleLookup[id].needsNamed
  THEN b.externalModuleLookup[id].name \o underscores \o default
  ELSE b.externalModuleLookup[id].name

\* The identifier the module uses for a local name
identifierFor(mod, name) ==
  IF hasOwnProp(mod.identifierReplacements, name)
  THEN mod.identifierReplacements[name]
  ELSE name

\* C23: in a built bundle, a specifier whose chain ends at a name of an
\* external module is replaced by <module name>.<name>, and for the default
\* by the module name, with __default when the module has named usage,
\* whether the external module is imported directly or reached through the
\* exports of local modules.
C23_ExternalNamesAreQualified ==
  pc = "built" =>
    \A id \in DOMAIN bundle.moduleLookup :
      \A i \in 1..Len(bundle.moduleLookup[id].imports) :
        \E x \in {bundle.moduleLookup[id].imports[i]} :
          \A j \in 1..Len(x.specifiers) :
            \E s \in {x.specifiers[j]} :
              (~x.passthrough /\ ~s.isBatch
                 /\ hasOwnProp(bundle.externalModuleLookup, originIn(bundle, x.id, s.name)[1]))
                => identifierFor(bundle.moduleLookup[id], s.as)
                     = externalName(bundle, originIn(bundle, x.id, s.name)[1],
                                    originIn(bundle, x.id, s.name)[2])


(***************************************************************************)
(* Namespaces: main.js imports b.js as a namespace and declares names that *)
(* b.js exports                                                            *)
(***************************************************************************)
varDeclaration(name, value) ==
  VariableDeclaration("var", << VariableDeclarator(name, Literal(value)) >>)

NamespaceBodies ==
  { <<>>,
    \* var x = 2;
    << varDeclaration(<<"x">>, <<"2">>) >>,
    \* var y = 2;
    << varDeclaration(<<"y">>, <<"2">>) >> }

NamespaceExports ==
  { \* export var x = 1;
    << ExportDeclaration(varDeclaration(<<"x">>, <<"1">>)) >>,
    \* var x = 1; export { x };
    << varDeclaration(<<"x">>, <<"1">>),
       ExportSpecifiers(<< ExportSpecifier(<<"x">>, <<"x">>) >>) >>,
    \* export default 1;
    << ExportDefaultDeclaration(Literal(<<"1">>)) >>,
    \* export function x () {}
    << ExportDeclaration(FunctionDeclaration(<<"x">>, <<>>, <<>>)) >>,
    \* export var y = 1; export default 1;
    << ExportDeclaration(varDeclaration(<<"y">>, <<"1">>)),
       ExportDefaultDeclaration(Literal(<<"1">>)) >>,
    \* var y = 1; var x = 1; export { y, x };
    << varDeclaration(<<"y">>, <<"1">>), varDeclaration(<<"x">>, <<"1">>),
       ExportSpecifiers(<< ExportSpecifier(<<"y">>, <<"y">>),
                           ExportSpecifier(<<"x">>, <<"x">>) >>) >> }

InitNamespace ==
  /\ files \in {(mainJs :> Program(<< ImportDeclaration(<< ImportNamespaceSpecifier(<<"b">>) >>, <<".", "/", "b">>) >> \o m))
                  @@ (bJs :> Program(b)) :
                  m \in NamespaceBodies, b \in NamespaceExports}
  /\ options = [entry |-> <<"m", "a", "i", "n">>, skip |-> <<>>, names |-> emptyObject]
  /\ started(1, noPrevious)

SpecNamespace ==
  InitNamespace /\ [][Next]_vars

\* The names a module exports, default for its default export
namesExportedBy(mod) ==
  {default : i \in {i \in 1..Len(mod.exports) : mod.exports[i].isDefault}}
  \cup {mod.exports[i].name :
          i \in {i \in 1..Len(mod.exports) :
                   ~mod.exports[i].isDefault /\ mod.exports[i].hasDeclaration}}
  \cup UNION {{mod.exports[i].specifiers[j].name :
                 j \in 1..Len(mod.exports[i].specifiers)} :
                i \in {i \in 1..Len(mod.exports) : mod.exports[i].hasSpecifiers}}

\* get name () { return identifier; }
getter(name, identifier) ==
  <<"g", "e", "t", " ">> \o name \o <<" ", "(", ")", " ", "{", " ", "r", "e", "t", "u", "r", "n", " ">> \o identifier \o <<";", " ", "}">>

\* C24: the object prepended to the body of a module that is imported as a
\* namespace has, for every name the module exports and for default, a
\* getter that returns the identifier identifierReplacements gives the name,
\* for names exported with their declaration and for names exported in a
\* list alike.
C24_GettersReturnTheReplacements ==
  pc = "built" =>
    \A k \in 1..Len(bundle.body) :
      \E mod \in {bundle.moduleLookup[bundle.body[k].id]} :
        mod._exportsNamespace =>
          \A name \in namesExportedBy(mod) :
            \E i \in 1..Len(bundle.body[k].edits) :
              /\ bundle.body[k].edits[i].op = "prepend"
              /\ occursIn(getter(name, identifierFor(mod, name)),
                          bundle.body[k].edits[i].text)


(***************************************************************************)
(* Properties of loading: what the bundle waits for                        *)
(***************************************************************************)
\* The file an id is found at, or undefined
fileOf(id) ==
  IF tryPaths(id)[1] \in DOMAIN files THEN tryPaths(id)[1]
  ELSE IF tryPaths(id)[2] \in DOMAIN files THEN tryPaths(id)[2]
  ELSE undefined

\* The files that the file at a path imports and that are not skipped
importedFiles(path) ==
  {fileOf(resolveId(files[path].body[i].source.value, path)) :
     i \in {i \in 1..Len(files[path].body) :
              /\ files[path].body[i].type = "ImportDeclaration"
              /\ ~includes(options.skip,
                           resolveId(files[path].body[i].source.value, path))}}
  \ {undefined}

\* The files reached from a set of files along at most n imports
RECURSIVE reachedFrom(_, _)
reachedFrom(found, n) ==
  IF n = 0 THEN found
  ELSE reachedFrom(found \cup UNION {importedFiles(p) : p \in found}, n - 1)

reachableFiles ==
  reachedFrom({fileOf(stripJs(options.entry))} \ {undefined},
              Cardinality(DOMAIN files))

\* C25: when the bundle is built, every file reached from the entry along
\* local imports was read and parsed and is a module of moduleLookup, and no
\* read is in flight, in whatever order the stats and the reads completed
\* and although an import of a path that is already being fetched is not
\* waited for.
C25_BundleWaitsForEveryModule ==
  pc = "built" =>
    /\ \A t \in tasks : t.kind # "read"
    /\ \A path \in reachableFiles :
         \E id \in DOMAIN bundle.moduleLookup :
           /\ bundle.moduleLookup[id].path = path
           /\ bundle.moduleLookup[id].ast = files[path]

\* A bundle of three modules where an import of a local module was cut
\* short, because the path was being fetched for another importer
C25_Witness ==
  /\ pc = "built"
  /\ Cardinality(reachableFiles) = 3
  /\ \E path \in DOMAIN promises : \E k \in 1..Len(promises[path]) :
       /\ promises[path][k].state = "done"
       /\ \E id \in DOMAIN moduleLookup :
            /\ moduleLookup[id].path = path
            /\ hasOwnProp(moduleLookup, moduleLookup[id].imports[k].id)


\* C26: in a built bundle the id of every import of every module is a key of
\* moduleLookup, a key of externalModuleLookup or an id of the skip list, and
\* never a key of both lookups, also when two ids of imports resolve to the
\* same path.
C26_ImportsAreAccountedFor ==
  pc = "built" =>
    \A m \in DOMAIN bundle.moduleLookup :
      \A i \in 1..Len(bundle.moduleLookup[m].imports) :
        \E id \in {bundle.moduleLookup[m].imports[i].id} :
          /\ \/ hasOwnProp(bundle.moduleLookup, id)
             \/ hasOwnProp(bundle.externalModuleLookup, id)
             \/ includes(bundle.skip, id)
          /\ ~(hasOwnProp(bundle.moduleLookup, id)
                 /\ hasOwnProp(bundle.externalModuleLookup, id))


(***************************************************************************)
(* Chains in a cycle: b/index.js exports a name of main.js again, and      *)
(* main.js a name of b/index.js                                            *)
(***************************************************************************)
CycleBodies ==
  { \* export { v } from '../main';
    << ExportFrom(<< ExportSpecifier(<<"v">>, <<"v">>) >>, <<".", ".", "/", "m", "a", "i", "n">>) >>,
    \* import { v } from '../main'; export { v };
    << ImportDeclaration(<< ImportSpecifier(<<"v">>, <<"v">>) >>, <<".", ".", "/", "m", "a", "i", "n">>),
       ExportSpecifiers(<< ExportSpecifier(<<"v">>, <<"v">>) >>) >>,
    \* export var v = 9;
    << ExportDeclaration(varDeclaration(<<"v">>, <<"9">>)) >> }

InitCycle ==
  /\ files \in {(mainJs :> Program(m)) @@ (bJs :> Program(b)) :
                  m \in SeqsUpTo(ChainDeclarations, MaxImports), b \in CycleBodies}
  /\ options = [entry |-> <<"m", "a", "i", "n">>, skip |-> <<>>, names |-> emptyObject]
  /\ started(1, noPrevious)

SpecCycle ==
  InitCycle /\ [][Next]_vars

\* C27: once every module is loaded, following the chains of the bundle
\* comes to an end, also when modules export the same name from each other
\* in a cycle: combining the bundle never fails to return.
C27_ChainsEnd ==
  error # "never returns"


(***************************************************************************)
(* The imports of a single file: esperanto.toAmd and esperanto.toUmd of    *)
(* sources with several import declarations, of the same path or not       *)
(***************************************************************************)
SummaryImports ==
  { \* import 'a';
    bareImport(<<"a">>),
    \* import { v } from 'a';
    ImportDeclaration(<< ImportSpecifier(<<"v">>, <<"v">>) >>, <<"a">>),
    \* import d from 'a';
    ImportDeclaration(<< ImportDefaultSpecifier(<<"d">>) >>, <<"a">>),
    \* import e from 'a';
    ImportDeclaration(<< ImportDefaultSpecifier(<<"e">>) >>, <<"a">>),
    \* import 'b';
    bareImport(<<"b">>),
    \* import f from 'b';
    ImportDeclaration(<< ImportDefaultSpecifier(<<"f">>) >>, <<"b">>) }

SummarySources ==
  {Program(i \o m) : i \in SeqsUpTo(SummaryImports, MaxImports),
                     m \in {<<>>, << refer(<<"d">>) >>}}

SummaryOptions ==
  {o \in EmitOptions : o.name = <<"l", "i", "b">> /\ o.amdName = undefined /\ ~o.absolutePaths}

InitSummary ==
  /\ files = emptyObject
  /\ options = [entry |-> <<>>, skip |-> <<>>, names |-> emptyObject]
  /\ idle

\* esperanto.toAmd( source, options ) and esperanto.toUmd( source, options )
TranspileImports ==
  /\ pc = "idle"
  /\ \E format \in {"amd", "umd"}, source \in SummarySources, opts \in SummaryOptions :
       output' = [call |-> "module", format |-> format, source |-> source,
                  options |-> opts]
                 @@ transpileMethod(format, source, opts)
  /\ pc' = "transpiled"
  /\ UNCHANGED << inputs, tasks, entryPath, modules, moduleLookup,
                  promiseByPath, promises, externalModules,
                  externalModuleLookup, error, bundle, run, previous >>

SpecSummary ==
  InitSummary /\ [][TranspileImports]_vars

\* The module the emitter was called on
emitted ==
  getStandaloneModule(output.source, output.options.strict).mod

\* The paths of the dependency list and the names of the parameters of the
\* factory, without the exports that strict mode puts first
summaryOf(mod, strict) ==
  IF strict THEN getImportSummary(mod)
  ELSE gathered(paths(mod.imports), aliases(mod.imports), 1, nothingGathered)

\* The identifier the body uses for the module of an import
usedFor(x, strict) ==
  IF strict THEN str(x.name) ELSE x.as

\* C28: in the AMD and UMD output of a single file, for every import
\* declaration with a specifier the identifier the body uses for the module
\* is the parameter of the factory at the index of the path of the import in
\* the dependency list, also when several declarations name the same path,
\* and a placeholder __depN__ stands only for a path that is imported
\* without specifiers.
C28_ParametersMatchDependencies ==
  (pc = "transpiled" /\ output.call = "module" /\ output.error = "none"
     /\ output.format \in {"amd", "umd"}) =>
    \E summary \in {summaryOf(emitted, output.options.strict)} :
      /\ \E i \in 1..Len(output.edits) :
           /\ output.edits[i].op = "prepend"
           /\ occursIn(<<"f", "u", "n", "c", "t", "i", "o", "n", " ", "(">>
                         \o join(IF output.options.strict
                                 THEN unshiftExports(emitted, summary.importNames)
                                 ELSE summary.importNames, <<",", " ">>)
                         \o <<")", " ", "{">>,
                       output.edits[i].text)
      /\ \A i \in 1..Len(emitted.imports) :
           emitted.imports[i].specifiers # <<>> =>
             \E k \in 1..Len(summary.importNames) :
               /\ summary.importPaths[k] = emitted.imports[i].path
               /\ summary.importNames[k]
                    = usedFor(emitted.imports[i], output.options.strict)
      /\ \A k \in 1..Len(summary.importNames) :
           isPlaceholder(summary.importNames[k]) =>
             \A i \in 1..Len(emitted.imports) :
               emitted.imports[i].path = summary.importPaths[k]
                 => emitted.imports[i].specifiers = <<>>


(***************************************************************************)
(* Renaming: main.js and a.js declare names at top level, of which some    *)
(* are the names that renaming makes, and refer to names nothing declares  *)
(***************************************************************************)
declare(name) ==
  VariableDeclaration("var", << VariableDeclarator(name, Null) >>)

RenameImports ==
  { bareImport(<<".", "/", "a">>),
    ImportDeclaration(<< ImportDefaultSpecifier(<<"d">>) >>, <<".", "/", "a">>) }

RenameBodies ==
  { \* var x;
    << declare(<<"x">>) >>,
    \* var x; var a__x;
    << declare(<<"x">>), declare(<<"a", "_", "_", "x">>) >>,
    \* var a__x;
    << declare(<<"a", "_", "_", "x">>) >>,
    \* var y;
    << declare(<<"y">>) >>,
    \* a;
    << refer(<<"a">>) >>,
    \* d;
    << refer(<<"d">>) >>,
    \* x;
    << refer(<<"x">>) >>,
    \* function g () { a; }
    << FunctionDeclaration(<<"g">>, <<>>, << refer(<<"a">>) >>) >> }

RenameExports ==
  { \* var x;
    << declare(<<"x">>) >>,
    \* export default 1;
    << ExportDefaultDeclaration(Literal(<<"1">>)) >>,
    \* var x; export default 1;
    << declare(<<"x">>), ExportDefaultDeclaration(Literal(<<"1">>)) >>,
    \* export default function x () {}
    << ExportDefaultDeclaration(FunctionDeclaration(<<"x">>, <<>>, <<>>)) >>,
    \* var main__x; var x;
    << declare(<<"m", "a", "i", "n", "_", "_", "x">>), declare(<<"x">>) >> }

InitRename ==
  /\ files \in {(mainJs :> Program(<< i >> \o m)) @@ (aJs :> Program(a)) :
                  i \in RenameImports, m \in RenameBodies, a \in RenameExports}
  /\ options = [entry |-> <<"m", "a", "i", "n">>, skip |-> <<>>, names |-> emptyObject]
  /\ started(1, noPrevious)

SpecRename ==
  InitRename /\ [][Next]_vars

\* The names declared at the top level of the modules of a bundle, each with
\* the id of its module
topLevelBindings(b) ==
  UNION {{<< id, b.moduleLookup[id].ast_._topLevelNames[i] >> :
            i \in 1..Len(b.moduleLookup[id].ast_._topLevelNames)} :
           id \in DOMAIN b.moduleLookup}

\* C29: in a built bundle no two top-level names of different modules are
\* emitted as the same identifier; in particular <module>__<name> is never
\* an identifier that another module declares at top level and keeps.
C29_BindingsStayApart ==
  pc = "built" =>
    \A p, q \in topLevelBindings(bundle) :
      p[1] # q[1] =>
        identifierFor(bundle.moduleLookup[p[1]], p[2])
          # identifierFor(bundle.moduleLookup[q[1]], q[2])

\* The names a module refers to that it neither declares nor imports
freeReferences(mod) ==
  {nodeAt(mod.ast, p).name : p \in references(mod.ast)}
  \ ({n \in mod.ast_._declared : TRUE}
       \cup {n \in {nodeAt(mod.ast, p).name : p \in references(mod.ast)} :
               imported(mod.imports, n)})

\* C30: in a built bundle the identifier chosen for the default export of a
\* module is no name that another module refers to without declaring or
\* importing it.
C30_DefaultsAvoidFreeReferences ==
  pc = "built" =>
    \A id \in DOMAIN bundle.moduleLookup :
      bundle.moduleLookup[id].hasDefaultExport =>
        \A other \in DOMAIN bundle.moduleLookup \ {id} :
          get(bundle.moduleLookup[id].identifierReplacements, default)
            \notin freeReferences(bundle.moduleLookup[other])

====
